---- MODULE Spec2Model ----
(***************************************************************************)
(* Node membership, liveness detection, placement and inter-node           *)
(* authentication of rabbit-panel (node.go, auth.go, scheduler.go).        *)
(*                                                                         *)
(* Time is counted in seconds.  Three specifications share the actions:    *)
(*   Spec       the registry under the HTTP handlers, with the health      *)
(*              check running at arbitrary moments and the clock moving   *)
(*              in steps around the heartbeat timeout;                     *)
(*   SpecTimed  the registry with a one-second clock and the health check  *)
(*              driven by its 10 second ticker;                            *)
(*   SpecToken  minting and verification of node tokens.                   *)
(***************************************************************************)
EXTENDS Integers, Sequences, FiniteSets, TLC

VARIABLES
    mode,       \* NodeManager.mode of the process
    now,        \* time.Now() of the master, in seconds
    nodes,      \* NodeManager.nodes: node id -> NodeInfo
    nextTick,   \* the moment the health check ticker fires next
    last,       \* the request handled last and the answer it got
    skew,       \* clock of the token minter minus clock of the verifier
    minterSecret,   \* nodeSecret of the process that mints
    verifierSecret, \* nodeSecret of the process that verifies
    inflight,   \* the token header of the request in flight, <<>> if none
    hdr,        \* X-Node-ID and X-Node-Token of the control-plane request handled last
    worker,     \* per worker process: where its main stands, and what came of its calls
    refs,       \* nm.nodes as a map of pointers: node id -> address of its NodeInfo
    heap,       \* the NodeInfo values behind the pointers
    lock,       \* the RWMutex of the NodeManager
    procs,      \* the goroutines working on the registry and where each stands
    sessions,   \* the sessions map of the user authentication: token -> Session
    users,      \* the users table of auth.db
    issued,     \* the JWTs signed so far
    dockerState,    \* the containers of the container runtime
    containersCache,    \* containersCache: data and lastFetch
    handlers    \* the goroutines serving container requests and where each stands

regVars == <<mode, nodes, nextTick>>
tokVars == <<skew, minterSecret, verifierSecret, inflight>>
ctlVars == <<hdr>>
wrkVars == <<worker>>
raceVars == <<refs, heap, lock, procs>>
authVars == <<sessions, users, issued>>
cacheVars == <<dockerState, containersCache, handlers>>

\* What the registry and token actions of the first three specifications leave alone.
extVars == <<ctlVars, wrkVars, raceVars, authVars, cacheVars>>

vars == <<mode, now, nodes, nextTick, last, tokVars, extVars>>

----------------------------------------------------------------------------
(* Bounds of the model *)

MaxTime == 62
MaxTimeTimed == 42
MaxTokenTime == 3690

----------------------------------------------------------------------------
(* Constants of the program *)

ModeMaster == "master"
ModeWorker == "worker"

NodeStatusOnline == "online"
NodeStatusOffline == "offline"
NodeStatusError == "error"

HealthCheckInterval == 10
HeartbeatTimeout == 30

StatusOK == 200
StatusBadRequest == 400
StatusMethodNotAllowed == 405
StatusUnauthorized == 401
StatusForbidden == 403
StatusInternalServerError == 500

SecondsPerMinute == 60
SecondsPerHour == 3600
SecondsPerDay == 24 * SecondsPerHour

\* minLoad := 100.0, in tenths of a percent
MinLoadInit == 100 * 10

----------------------------------------------------------------------------
(* Inputs *)

NodeIds == {"w1", "w2"}

Methods == {"POST", "GET"}

NoLabels == {}
ProdLabels == {<<"env", "prod">>}

\* The body registerToMaster sends: gauges and last_seen at their zero values.
PlainBody(id) ==
    [id |-> id, name |-> "alpha", address |-> "10.0.0.1:9999", mode |-> ModeWorker,
     status |-> NodeStatusOnline, cpu |-> 0, memory |-> 0, disk |-> 0,
     containers |-> 0, lastSeen |-> 0, labels |-> NoLabels]

\* A body whose caller filled in every field of NodeInfo.
FilledBody(id) ==
    [id |-> id, name |-> "beta", address |-> "10.0.0.2:9999", mode |-> ModeWorker,
     status |-> NodeStatusError, cpu |-> 50, memory |-> 50, disk |-> 70,
     containers |-> 3, lastSeen |-> 1000, labels |-> ProdLabels]

RegisterBodies == {PlainBody(id) : id \in NodeIds} \cup {FilledBody(id) : id \in NodeIds}

RegisterRequests ==
    {[method |-> "POST", valid |-> TRUE, body |-> b] : b \in RegisterBodies}
    \cup {[method |-> "GET", valid |-> TRUE, body |-> PlainBody("w1")],
          [method |-> "POST", valid |-> FALSE, body |-> PlainBody("w1")]}

Reports ==
    {[cpu |-> 10, memory |-> 20, disk |-> 30, containers |-> 1],
     [cpu |-> 5, memory |-> 80, disk |-> 40, containers |-> 2],
     [cpu |-> 100, memory |-> 100, disk |-> 90, containers |-> 5]}

HeartbeatBody(id, r) ==
    [node_id |-> id, cpu |-> r.cpu, memory |-> r.memory, disk |-> r.disk,
     containers |-> r.containers]

HeartbeatBodies == {HeartbeatBody(id, r) : id \in NodeIds, r \in Reports}

FirstReport == [cpu |-> 10, memory |-> 20, disk |-> 30, containers |-> 1]

HeartbeatRequests ==
    {[method |-> "POST", valid |-> TRUE, body |-> b] : b \in HeartbeatBodies}
    \cup {[method |-> "GET", valid |-> TRUE, body |-> HeartbeatBody("w1", FirstReport)],
          [method |-> "POST", valid |-> FALSE, body |-> HeartbeatBody("w1", FirstReport)]}

\* Values of NODE_SECRET.
DefaultSecret == "rabbit-panel-node-secret-change-in-production"
Secrets == {DefaultSecret, "s2"}

\* The minter's clock agrees with the verifier's, or is an hour off.
ClockSkews == {0 - SecondsPerHour, 0, SecondsPerHour}

\* The token clock starts at 23:00:00 of day 0.
StartOfClock == 23 * SecondsPerHour

\* The token clock moves by half a minute, half an hour or an hour.
TokenSteps == {30, 30 * SecondsPerMinute, SecondsPerHour}

\* The clock moves by the heartbeat timeout or by one second more.
TickSteps == {HeartbeatTimeout, HeartbeatTimeout + 1}

----------------------------------------------------------------------------
(* NodeManager *)

\* nm.nodes[id] = node
MapPut(m, id, node) ==
    [x \in (DOMAIN m) \cup {id} |-> IF x = id THEN node ELSE m[x]]

\* RegisterNode without the line node.Status = NodeStatusOnline.
RegisterNodeKeepsStatus(ns, node, t) ==
    MapPut(ns, node.id, [node EXCEPT !.lastSeen = t])

RegisterNode(ns, node, t) ==
    MapPut(ns, node.id, [node EXCEPT !.lastSeen = t, !.status = NodeStatusOnline])

\* UpdateNodeResources without the exists test: an unknown id gets a record.
UpdateNodeResourcesUpsert(ns, nodeID, cpu, memory, disk, containers, t) ==
    IF nodeID \in DOMAIN ns
    THEN [ns EXCEPT ![nodeID] = [@ EXCEPT !.cpu = cpu, !.memory = memory, !.disk = disk,
                                          !.containers = containers, !.lastSeen = t]]
    ELSE MapPut(ns, nodeID,
                [id |-> nodeID, name |-> "", address |-> "", mode |-> "",
                 status |-> "", cpu |-> cpu, memory |-> memory, disk |-> disk,
                 containers |-> containers, lastSeen |-> t, labels |-> {}])

\* UpdateNodeResources that also brings the node back online.
UpdateNodeResourcesRevives(ns, nodeID, cpu, memory, disk, containers, t) ==
    IF nodeID \in DOMAIN ns
    THEN [ns EXCEPT ![nodeID] = [@ EXCEPT !.cpu = cpu, !.memory = memory, !.disk = disk,
                                          !.containers = containers, !.lastSeen = t,
                                          !.status = NodeStatusOnline]]
    ELSE ns

\* UpdateNodeResources at the moment t.
UpdateNodeResources(ns, nodeID, cpu, memory, disk, containers, t) ==
    IF nodeID \in DOMAIN ns
    THEN [ns EXCEPT ![nodeID] = [@ EXCEPT !.cpu = cpu, !.memory = memory, !.disk = disk,
                                          !.containers = containers, !.lastSeen = t]]
    ELSE ns

GetAllNodes(ns) == {ns[id] : id \in DOMAIN ns}

\* The staleness test with >= in place of >.
StaleAtTimeout(node, t) == t - node.lastSeen >= HeartbeatTimeout

\* The staleness test with a threshold one sweep interval too long.
StaleLate(node, t) == t - node.lastSeen > HeartbeatTimeout + HealthCheckInterval

\* A test that already fails a record at 30 seconds.
StaleAtThirty(node, t) == t - node.lastSeen >= HeartbeatTimeout

\* now.Sub(node.LastSeen) > 30*time.Second
Stale(node, t) == t - node.lastSeen > HeartbeatTimeout

\* A sweep that drops the stale records instead of marking them.
CheckNodeHealthEvicts(ns, t) ==
    [id \in {i \in DOMAIN ns : ~Stale(ns[i], t)} |-> ns[id]]

\* A sweep without the test of node.Status.
CheckNodeHealthAnyStatus(ns, t) ==
    [id \in DOMAIN ns |->
        IF Stale(ns[id], t)
        THEN [ns[id] EXCEPT !.status = NodeStatusOffline]
        ELSE ns[id]]

\* A sweep that stamps the records it marks.
CheckNodeHealthStamps(ns, t) ==
    [id \in DOMAIN ns |->
        IF Stale(ns[id], t) /\ ns[id].status = NodeStatusOnline
        THEN [ns[id] EXCEPT !.status = NodeStatusOffline, !.lastSeen = t]
        ELSE ns[id]]

\* checkNodeHealth at the moment t.
CheckNodeHealth(ns, t) ==
    [id \in DOMAIN ns |->
        IF Stale(ns[id], t) /\ ns[id].status = NodeStatusOnline
        THEN [ns[id] EXCEPT !.status = NodeStatusOffline]
        ELSE ns[id]]

\* A load that forgets the memory gauge.
LoadCpuOnly(node) == node.cpu * 10

\* load := (node.CPU + node.Memory) / 2, in tenths of a percent
Load(node) == ((node.cpu + node.memory) * 10) \div 2

\* The orders in which range may walk the map.
Orders(S) == {o \in [1..Cardinality(S) -> S] : \A i, j \in 1..Cardinality(S) : o[i] = o[j] => i = j}

\* The loop of SelectBestNode without the test of node.Status.
RECURSIVE SelectLoopAnyStatus(_, _, _, _)
SelectLoopAnyStatus(ns, order, bestNode, minLoad) ==
    IF order = <<>>
    THEN bestNode
    ELSE LET node == ns[Head(order)] IN
         IF Load(node) < minLoad
         THEN SelectLoopAnyStatus(ns, Tail(order), <<node.id>>, Load(node))
         ELSE SelectLoopAnyStatus(ns, Tail(order), bestNode, minLoad)

\* The loop of SelectBestNode over the keys in the order range yields them;
\* bestNode is <<>> for nil and <<id>> for the node with that id.
RECURSIVE SelectLoop(_, _, _, _)
SelectLoop(ns, order, bestNode, minLoad) ==
    IF order = <<>>
    THEN bestNode
    ELSE LET node == ns[Head(order)] IN
         IF node.status # NodeStatusOnline
         THEN SelectLoop(ns, Tail(order), bestNode, minLoad)
         ELSE IF Load(node) < minLoad
              THEN SelectLoop(ns, Tail(order), <<node.id>>, Load(node))
              ELSE SelectLoop(ns, Tail(order), bestNode, minLoad)

SelectBestNode(ns, order) ==
    LET bestNode == SelectLoop(ns, order, <<>>, MinLoadInit) IN
    [node |-> bestNode, err |-> bestNode = <<>>]

----------------------------------------------------------------------------
(* Initial states *)

NoRequest == [op |-> "none"]

NoHeaders == [nodeID |-> "", token |-> <<>>]

InitCtl == hdr = NoHeaders

InitWorker == worker = [w \in NodeIds |-> [pc |-> "start", registered |-> FALSE]]

InitRace ==
    /\ refs = <<>>
    /\ heap = <<>>
    /\ lock = [writer |-> <<>>, readers |-> {}]
    /\ procs = <<>>

InitAuth ==
    /\ sessions = <<>>
    /\ users = <<>>
    /\ issued = {}

\* No container request has been served: the cache holds its zero value.
InitCache ==
    /\ dockerState = [gen |-> 0, containers |-> 0]
    /\ containersCache = [data |-> [gen |-> 0, containers |-> 0], lastFetch |-> <<>>]
    /\ handlers = <<>>

InitExt == InitCtl /\ InitWorker /\ InitRace /\ InitAuth

InitToken ==
    /\ skew = 0
    /\ minterSecret = DefaultSecret
    /\ verifierSecret = DefaultSecret
    /\ inflight = <<>>

Init ==
    /\ mode \in {ModeMaster, ModeWorker}
    /\ now = 0
    /\ nodes = <<>>
    /\ nextTick = HealthCheckInterval
    /\ last = NoRequest
    /\ InitCache
    /\ InitToken
    /\ InitExt

----------------------------------------------------------------------------
(* Actions of the registry *)

\* Time passes.
Tick(d) ==
    /\ now + d <= MaxTime
    /\ now' = now + d
    /\ last' = [op |-> "tick"]
    /\ UNCHANGED <<regVars, tokVars, extVars>>

\* The status of the record a request found under id: <<>> if there was none.
StatusBefore(id) == IF id \in DOMAIN nodes THEN <<nodes[id].status>> ELSE <<>>

\* POST /api/nodes/register: the handler.  Its own test of the mode follows
\* its test of the method; main registers the node routes only in master
\* mode, which is the first conjunct of HandleNodeRegister.
NodeRegisterBody(req) ==
    IF req.method # "POST"
       THEN /\ last' = [op |-> "register", req |-> req, code |-> StatusMethodNotAllowed,
                        before |-> <<>>]
            /\ UNCHANGED nodes
       ELSE IF mode # ModeMaster
       THEN /\ last' = [op |-> "register", req |-> req, code |-> StatusBadRequest,
                        before |-> <<>>]
            /\ UNCHANGED nodes
       ELSE IF ~req.valid
       THEN /\ last' = [op |-> "register", req |-> req, code |-> StatusBadRequest,
                        before |-> <<>>]
            /\ UNCHANGED nodes
       ELSE /\ nodes' = RegisterNode(nodes, req.body, now)
            /\ last' = [op |-> "register", req |-> req, code |-> StatusOK,
                        before |-> StatusBefore(req.body.id)]

HandleNodeRegister(req) ==
    /\ mode = ModeMaster
    /\ NodeRegisterBody(req)
    /\ UNCHANGED <<mode, now, nextTick, tokVars, extVars>>

\* POST /api/nodes/heartbeat (a route of the master, as above)
NodeHeartbeatBody(req) ==
    IF req.method # "POST"
       THEN /\ last' = [op |-> "heartbeat", req |-> req, code |-> StatusMethodNotAllowed,
                        before |-> <<>>]
            /\ UNCHANGED nodes
       ELSE IF mode # ModeMaster
       THEN /\ last' = [op |-> "heartbeat", req |-> req, code |-> StatusBadRequest,
                        before |-> <<>>]
            /\ UNCHANGED nodes
       ELSE IF ~req.valid
       THEN /\ last' = [op |-> "heartbeat", req |-> req, code |-> StatusBadRequest,
                        before |-> <<>>]
            /\ UNCHANGED nodes
       ELSE /\ nodes' = UpdateNodeResources(nodes, req.body.node_id, req.body.cpu,
                                            req.body.memory, req.body.disk,
                                            req.body.containers, now)
            /\ last' = [op |-> "heartbeat", req |-> req, code |-> StatusOK,
                        before |-> StatusBefore(req.body.node_id)]

HandleNodeHeartbeat(req) ==
    /\ mode = ModeMaster
    /\ NodeHeartbeatBody(req)
    /\ UNCHANGED <<mode, now, nextTick, tokVars, extVars>>

\* GET /api/nodes (a route of the master, as above)
HandleNodesList ==
    /\ mode = ModeMaster
    /\ IF mode # ModeMaster
       THEN last' = [op |-> "list", code |-> StatusBadRequest, result |-> {}]
       ELSE last' = [op |-> "list", code |-> StatusOK, result |-> GetAllNodes(nodes)]
    /\ UNCHANGED <<regVars, now, tokVars, extVars>>

\* The placement selector as handleContainerSchedule calls it.
SelectBest(order) ==
    /\ mode = ModeMaster
    /\ last' = [op |-> "select", result |-> SelectBestNode(nodes, order)]
    /\ UNCHANGED <<regVars, now, tokVars, extVars>>

\* One sweep of the health check, whenever its goroutine gets to run; the
\* goroutine is started in master mode only.
HealthCheck ==
    /\ mode = ModeMaster
    /\ nodes' = CheckNodeHealth(nodes, now)
    /\ last' = [op |-> "sweep"]
    /\ UNCHANGED <<mode, now, nextTick, tokVars, extVars>>

Next ==
    \/ \E d \in TickSteps : Tick(d)
    \/ \E req \in RegisterRequests : HandleNodeRegister(req)
    \/ \E req \in HeartbeatRequests : HandleNodeHeartbeat(req)
    \/ HandleNodesList
    \/ \E order \in Orders(DOMAIN nodes) : SelectBest(order)
    \/ HealthCheck

Spec == Init /\ [][Next]_vars

----------------------------------------------------------------------------
(* Claims about the registry, checked under Spec *)

WellFormed(op) == last.op = op /\ last.req.method = "POST" /\ last.req.valid

OnlineIds == {id \in DOMAIN nodes : nodes[id].status = NodeStatusOnline}

\* C1: a well-formed register request always succeeds and leaves exactly one
\* record under the id of the body: the body itself with status online and
\* last_seen now, whatever status and last_seen the caller sent and whatever
\* record was there before.
RegisterReplacesWholesale ==
    WellFormed("register") =>
        LET b == last.req.body IN
        /\ last.code = StatusOK
        /\ b.id \in DOMAIN nodes
        /\ Cardinality({n \in GetAllNodes(nodes) : n.id = b.id}) = 1
        /\ nodes[b.id] =
             [id |-> b.id, name |-> b.name, address |-> b.address, mode |-> b.mode,
              status |-> NodeStatusOnline, cpu |-> b.cpu, memory |-> b.memory,
              disk |-> b.disk, containers |-> b.containers, lastSeen |-> now,
              labels |-> b.labels]

\* C1 happens: an offline record with reported gauges was replaced by a body
\* that asked for status error and a last_seen of its own.
RegisterReplacedOffline ==
    /\ WellFormed("register")
    /\ last.before = <<NodeStatusOffline>>
    /\ last.req.body.status = NodeStatusError
    /\ last.req.body.lastSeen # now
    /\ nodes[last.req.body.id].status = NodeStatusOnline

\* C2: a heartbeat for an id that is not registered changes no record and
\* creates none, and is answered 200.
HeartbeatUnknownIsNoOp ==
    [][(/\ last'.op = "heartbeat"
        /\ last'.req.method = "POST"
        /\ last'.req.valid
        /\ last'.req.body.node_id \notin DOMAIN nodes)
       => (/\ nodes' = nodes
           /\ GetAllNodes(nodes') = GetAllNodes(nodes)
           /\ last'.code = StatusOK)]_vars

\* C2 happens: a heartbeat for an unknown id was answered 200 while another
\* node is registered.
HeartbeatUnknownAnswered ==
    /\ WellFormed("heartbeat")
    /\ last.req.body.node_id \notin DOMAIN nodes
    /\ DOMAIN nodes # {}
    /\ last.code = StatusOK

\* C5: after the master has applied a heartbeat for a registered node, the
\* node is online (an offline node recovers by heartbeat).
HeartbeatRevives ==
    (WellFormed("heartbeat") /\ last.req.body.node_id \in DOMAIN nodes)
        => nodes[last.req.body.node_id].status = NodeStatusOnline

\* C6: over a registry with no online record SelectBestNode returns the
\* error and no node.
SelectFailsWithoutOnline ==
    (last.op = "select" /\ OnlineIds = {})
        => (last.result.err /\ last.result.node = <<>>)

\* C6 happens: the selector was run over a registry whose records are all
\* offline.
SelectRanOverAllOffline ==
    /\ last.op = "select"
    /\ DOMAIN nodes = NodeIds
    /\ OnlineIds = {}
    /\ last.result.err

\* C7: a node SelectBestNode returns is online and no online node has a
\* smaller cpu + memory; of A{cpu=10,mem=20} and B{cpu=5,mem=80} it is A.
SelectReturnsLeastLoadedOnline ==
    (last.op = "select" /\ ~last.result.err) =>
        LET best == nodes[last.result.node[1]] IN
        /\ best.status = NodeStatusOnline
        /\ \A id \in OnlineIds :
              best.cpu + best.memory <= nodes[id].cpu + nodes[id].memory
        /\ \A a, b \in OnlineIds :
              (/\ nodes[a].cpu = 10 /\ nodes[a].memory = 20
               /\ nodes[b].cpu = 5 /\ nodes[b].memory = 80) => best.id = a

\* C7 happens: the selector chose between online A{10,20} and B{5,80}.
SelectChoseBetweenTwo ==
    /\ last.op = "select"
    /\ ~last.result.err
    /\ \E a, b \in OnlineIds :
          /\ nodes[a].cpu = 10 /\ nodes[a].memory = 20
          /\ nodes[b].cpu = 5 /\ nodes[b].memory = 80
          /\ last.result.node = <<a>>

\* C8: SelectBestNode returns a node whenever some record is online,
\* whatever gauges the online nodes report.
SelectSucceedsWithOnline ==
    (last.op = "select" /\ OnlineIds # {}) => ~last.result.err

----------------------------------------------------------------------------
(* The registry under the health check ticker, second by second *)

InitTimed ==
    /\ mode = ModeMaster
    /\ now = 0
    /\ nodes = <<>>
    /\ nextTick = HealthCheckInterval
    /\ last = NoRequest
    /\ InitCache
    /\ InitToken
    /\ InitExt

\* A second passes; the ticker fires before the clock passes its moment.
TickTimed ==
    /\ now < nextTick
    /\ now < MaxTimeTimed
    /\ now' = now + 1
    /\ last' = [op |-> "tick"]
    /\ UNCHANGED <<regVars, tokVars, extVars>>

\* for range ticker.C { nm.checkNodeHealth() }
HealthCheckTick ==
    /\ mode = ModeMaster
    /\ now = nextTick
    /\ nodes' = CheckNodeHealth(nodes, now)
    /\ nextTick' = nextTick + HealthCheckInterval
    /\ last' = [op |-> "sweep"]
    /\ UNCHANGED <<mode, now, tokVars, extVars>>

TimedRegisterRequests ==
    {[method |-> "POST", valid |-> TRUE, body |-> PlainBody(id)] : id \in NodeIds}

TimedHeartbeatRequests ==
    {[method |-> "POST", valid |-> TRUE, body |-> HeartbeatBody(id, FirstReport)] : id \in NodeIds}

NextTimed ==
    \/ TickTimed
    \/ \E req \in TimedRegisterRequests : HandleNodeRegister(req)
    \/ \E req \in TimedHeartbeatRequests : HandleNodeHeartbeat(req)
    \/ HandleNodesList
    \/ HealthCheckTick

SpecTimed == InitTimed /\ [][NextTimed]_vars

----------------------------------------------------------------------------
(* Claims about the failure detector, checked under SpecTimed *)

\* C3: a record becomes offline only in a sweep that finds more than 30
\* seconds elapsed since its last_seen; a record is never created offline,
\* and a sweep at exactly 30 seconds leaves the record online.
NoEarlyDemotion ==
    [][\A id \in DOMAIN nodes' :
          nodes'[id].status = NodeStatusOffline =>
              /\ id \in DOMAIN nodes
              /\ \/ nodes[id].status = NodeStatusOffline
                 \/ /\ last'.op = "sweep"
                    /\ now - nodes[id].lastSeen > 30]_vars

\* C3 happens: one sweep found a node at exactly 30 seconds and left it
\* online, and found another at 31 seconds and set it offline.
SweepAtTheBoundary ==
    /\ last.op = "sweep"
    /\ \E a, b \in DOMAIN nodes :
          /\ nodes[a].status = NodeStatusOnline /\ now - nodes[a].lastSeen = 30
          /\ nodes[b].status = NodeStatusOffline /\ now - nodes[b].lastSeen = 31

\* C4: with the sweep every 10 seconds, a list() made more than 40 seconds
\* after the last registration or heartbeat applied for a node reports that
\* node offline.
BoundedDetection ==
    (last.op = "list" /\ last.code = StatusOK) =>
        \A n \in last.result : now - n.lastSeen > 40 => n.status = NodeStatusOffline

\* C4 happens: a list() made 41 seconds after a node's registration, which
\* the sweep at 30 seconds had left online, reports it offline.
ListedAfterDetection ==
    /\ last.op = "list"
    /\ \E n \in last.result :
          /\ now - n.lastSeen = 41
          /\ n.lastSeen = 0
          /\ n.status = NodeStatusOffline

----------------------------------------------------------------------------
(* Node tokens *)

\* Strings are sequences of character codes.
Colon == 58
Space == 32
Digit(n) == 48 + n
TwoDigits(n) == <<Digit(n \div 10), Digit(n % 10)>>

\* The ten characters "2006-01-02" of a day, as one code above every
\* character: the day number counted from the clock's origin.
DateBlock(t) == 100000 + t \div SecondsPerDay

\* t.Format("2006-01-02 15:04:05"): the layout with the seconds kept.
FormatWithSeconds(t) ==
    <<DateBlock(t), Space>> \o TwoDigits((t % SecondsPerDay) \div SecondsPerHour)
        \o <<Colon>> \o TwoDigits((t % SecondsPerHour) \div SecondsPerMinute)
        \o <<Colon>> \o TwoDigits(t % SecondsPerMinute)

\* t.Format("2006-01-02 15:04"): the date, the hour and the minute of t.
FormatMinute(t) ==
    <<DateBlock(t), Space>> \o TwoDigits((t % SecondsPerDay) \div SecondsPerHour)
        \o <<Colon>> \o TwoDigits((t % SecondsPerHour) \div SecondsPerMinute)

\* A node id that ends like a message: "w1:" and the layout of the moment
\* the clock of SpecToken starts at.
StampedId == "w1:stamp"

\* The characters of the node ids in use.
Bytes(nodeID) ==
    CASE nodeID = "" -> <<>>
      [] nodeID = "w" -> <<119>>
      [] nodeID = "w1" -> <<119, Digit(1)>>
      [] nodeID = "w2" -> <<119, Digit(2)>>
      [] nodeID = "master" -> <<109, 97, 115, 116, 101, 114>>
      [] nodeID = StampedId -> <<119, Digit(1), Colon>> \o FormatMinute(StartOfClock)

\* hex.EncodeToString of HMAC-SHA256 of msg under secret, taken as free of
\* collisions: the digest determines the secret and the message.
HmacHex(secret, msg) == <<secret, msg>>

\* The message with the node id left out.
SignedMessageOfTimeOnly(nodeID, t) == FormatMinute(t)

\* nodeID + ":" + t.Format("2006-01-02 15:04")
SignedMessage(nodeID, t) == Bytes(nodeID) \o <<Colon>> \o FormatMinute(t)

\* generateNodeToken run by a process whose secret and clock are given.
GenerateNodeToken(secret, nodeID, clock) ==
    HmacHex(secret, SignedMessage(nodeID, clock))

GenerateNodeTokenForTime(secret, nodeID, t) ==
    HmacHex(secret, SignedMessage(nodeID, t))

\* verifyNodeToken trying only the present and the coming hour.
VerifyNodeTokenNoPast(secret, nodeID, token, clock) ==
    \E i \in 0..1 :
        token = GenerateNodeTokenForTime(secret, nodeID, clock + i * SecondsPerHour)

\* verifyNodeToken run by a process whose secret and clock are given.
VerifyNodeToken(secret, nodeID, token, clock) ==
    \E i \in -1..1 :
        token = GenerateNodeTokenForTime(secret, nodeID, clock + i * SecondsPerHour)

InitTokenSpec ==
    /\ mode = ModeMaster
    /\ now = StartOfClock
    /\ nodes = <<>>
    /\ nextTick = HealthCheckInterval
    /\ last = NoRequest
    /\ InitCache
    /\ skew \in ClockSkews
    /\ minterSecret \in Secrets
    /\ verifierSecret = DefaultSecret
    /\ inflight = <<>>
    /\ InitExt

\* Time passes on both clocks.
TickToken(d) ==
    /\ now + d <= StartOfClock + MaxTokenTime
    /\ now' = now + d
    /\ last' = [op |-> "tick"]
    /\ UNCHANGED <<regVars, tokVars, extVars>>

\* A process mints the token of its next call for nodeID.
MintToken(nodeID) ==
    /\ inflight' = <<[nodeID |-> nodeID,
                      token |-> GenerateNodeToken(minterSecret, nodeID, now + skew),
                      mintedAt |-> now + skew]>>
    /\ last' = [op |-> "mint"]
    /\ UNCHANGED <<regVars, now, skew, minterSecret, verifierSecret, extVars>>

\* The receiver verifies the token in flight against the node id the
\* request names.
VerifyToken(nodeID) ==
    /\ inflight # <<>>
    /\ last' = [op |-> "verify", nodeID |-> nodeID,
                ok |-> VerifyNodeToken(verifierSecret, nodeID, inflight[1].token, now)]
    /\ UNCHANGED <<regVars, now, tokVars, extVars>>

NextToken ==
    \/ \E d \in TokenSteps : TickToken(d)
    \/ \E id \in NodeIds : MintToken(id)
    \/ \E id \in NodeIds : VerifyToken(id)

SpecToken == InitTokenSpec /\ [][NextToken]_vars

----------------------------------------------------------------------------
(* Claims about node tokens, checked under SpecToken *)

\* The minute of the clock reading t, counted from the clock's origin.
MinuteOf(t) == t \div 60

\* The verification just made was of a token minted for the id the request
\* names, under the verifier's secret.
VerifiedOwnToken ==
    /\ last.op = "verify"
    /\ last.nodeID = inflight[1].nodeID
    /\ minterSecret = verifierSecret

\* C9: a token minted for X is accepted by verify(X, token) when the verifier
\* reads the same clock minute as the minter did and both hold the same
\* secret.
TokenRoundTrip ==
    (VerifiedOwnToken /\ MinuteOf(now) = MinuteOf(inflight[1].mintedAt)) => last.ok

\* C9 happens: a token was accepted half a minute after it was minted, in
\* the same minute.
VerifiedWithinTheMinute ==
    /\ VerifiedOwnToken
    /\ MinuteOf(now) = MinuteOf(inflight[1].mintedAt)
    /\ now = inflight[1].mintedAt + 30
    /\ last.ok

----------------------------------------------------------------------------
(* The control plane behind nodeAuthMiddleware *)

\* The tokens a caller may put in X-Node-Token at the moment clock: none, or
\* one minted for some node under some secret, now or half an hour ago.
CtlTokens(clock) ==
    {<<>>} \cup {GenerateNodeToken(s, id, t) :
                    s \in Secrets, id \in NodeIds,
                    t \in {clock, clock - 30 * SecondsPerMinute}}

CtlHeaders(clock) ==
    {[nodeID |-> i, token |-> t] : i \in NodeIds \cup {""}, t \in CtlTokens(clock)}

\* nodeAuthMiddleware with the test of the token left out.
NodeAuthRejectsEmptyOnly(h, secret, clock) ==
    h.nodeID = "" \/ h.token = <<>>

\* The two tests of nodeAuthMiddleware: TRUE when the request is turned away.
NodeAuthRejects(h, secret, clock) ==
    \/ h.nodeID = "" \/ h.token = <<>>
    \/ ~VerifyNodeToken(secret, h.nodeID, h.token, clock)

\* What nodeAuthMiddleware answers itself.
NodeAuthRefusal ==
    /\ last' = [op |-> "nodeauth", code |-> StatusUnauthorized]
    /\ UNCHANGED nodes

\* /api/nodes/register as main wires it: nodeAuthMiddleware(handleNodeRegister)
NodeAuthRegister(h, req) ==
    /\ mode = ModeMaster
    /\ hdr' = h
    /\ IF NodeAuthRejects(h, verifierSecret, now)
       THEN NodeAuthRefusal
       ELSE NodeRegisterBody(req)
    /\ UNCHANGED <<mode, now, nextTick, tokVars, wrkVars, raceVars, authVars, cacheVars>>

\* /api/nodes/heartbeat as main wires it: nodeAuthMiddleware(handleNodeHeartbeat)
NodeAuthHeartbeat(h, req) ==
    /\ mode = ModeMaster
    /\ hdr' = h
    /\ IF NodeAuthRejects(h, verifierSecret, now)
       THEN NodeAuthRefusal
       ELSE NodeHeartbeatBody(req)
    /\ UNCHANGED <<mode, now, nextTick, tokVars, wrkVars, raceVars, authVars, cacheVars>>

CreateRequests ==
    {[method |-> "POST", valid |-> TRUE], [method |-> "GET", valid |-> TRUE],
     [method |-> "POST", valid |-> FALSE]}

\* handleContainerCreate of a worker; docker is what the container runtime
\* answers: 200 when the container was created and started.
ContainerCreateBody(req, docker) ==
    /\ IF req.method # "POST"
       THEN last' = [op |-> "create", req |-> req, code |-> StatusMethodNotAllowed]
       ELSE IF ~req.valid
       THEN last' = [op |-> "create", req |-> req, code |-> StatusBadRequest]
       ELSE last' = [op |-> "create", req |-> req, code |-> docker]
    /\ UNCHANGED nodes

\* /api/containers/create, a route of worker mode:
\* nodeAuthMiddleware(handleContainerCreate)
NodeAuthCreate(h, req, docker) ==
    /\ mode = ModeWorker
    /\ hdr' = h
    /\ IF NodeAuthRejects(h, verifierSecret, now)
       THEN NodeAuthRefusal
       ELSE ContainerCreateBody(req, docker)
    /\ UNCHANGED <<mode, now, nextTick, tokVars, wrkVars, raceVars, authVars, cacheVars>>

NextCtl ==
    \/ \E d \in TickSteps : Tick(d)
    \/ \E h \in CtlHeaders(now), req \in TimedRegisterRequests : NodeAuthRegister(h, req)
    \/ \E h \in CtlHeaders(now), req \in TimedHeartbeatRequests : NodeAuthHeartbeat(h, req)
    \/ \E h \in CtlHeaders(now), req \in CreateRequests,
          docker \in {StatusOK, StatusInternalServerError} : NodeAuthCreate(h, req, docker)
    \/ HealthCheck

SpecCtl == Init /\ [][NextCtl]_vars

----------------------------------------------------------------------------
(* Claims about the control plane, checked under SpecCtl *)

CtlOps == {"nodeauth", "register", "heartbeat", "create"}

\* The credentials h do not pass at the moment t: a header is missing or
\* empty, or the token fails verify(h.nodeID, h.token).
BadCredentials(h, t) ==
    \/ h.nodeID = ""
    \/ h.token = <<>>
    \/ ~VerifyNodeToken(verifierSecret, h.nodeID, h.token, t)

\* C11: a control-plane request whose node id or token is missing or empty, or
\* whose token fails verification, is answered 401 by the middleware: the
\* wrapped handler does not run and the registry is as it was.
BadCredentialsAreTurnedAway ==
    [][(last'.op \in CtlOps /\ BadCredentials(hdr', now))
       => (/\ last'.op = "nodeauth"
           /\ last'.code = StatusUnauthorized
           /\ nodes' = nodes)]_vars

\* C11 happens: a request that named a node and carried a token which failed
\* verification was turned away from a registry that holds records.
TurnedAwayWithBadToken ==
    /\ last.op = "nodeauth"
    /\ hdr.nodeID # ""
    /\ hdr.token # <<>>
    /\ BadCredentials(hdr, now)
    /\ DOMAIN nodes # {}

----------------------------------------------------------------------------
(* The cross-node aggregator: GET /api/containers/all *)

\* An address with a space in its host: url.Parse, and so http.NewRequest,
\* refuses "http://10.0.0.3 :9999/api/containers".
UnparsableAddress == "10.0.0.3 :9999"

NewRequestFails(address) == address = UnparsableAddress

AggRegisterRequests ==
    TimedRegisterRequests \cup
    {[method |-> "POST", valid |-> TRUE,
      body |-> [PlainBody(id) EXCEPT !.address = UnparsableAddress]] : id \in NodeIds}

\* What one GET to a worker's /api/containers comes to: the transport fails
\* or times out (err), or the worker answers with a status and a body that
\* decodes into a list of containers or does not.
TransportError == [err |-> TRUE, code |-> 0, decodable |-> FALSE, containers |-> <<>>]

WorkerReplies ==
    {TransportError,
     [err |-> FALSE, code |-> StatusOK, decodable |-> TRUE, containers |-> <<"c1", "c2">>],
     [err |-> FALSE, code |-> StatusOK, decodable |-> FALSE, containers |-> <<>>],
     [err |-> FALSE, code |-> StatusUnauthorized, decodable |-> FALSE, containers |-> <<>>]}

\* What dockerClient.ContainerList of the master itself returns.
LocalContainerLists == {<<>>, <<"m1">>}

\* The entries appended for the containers cs of the node called nodeID.
Entries(nodeID, cs) == [i \in 1..Len(cs) |-> [node_id |-> nodeID, id |-> cs[i]]]

\* The loop of handleAllContainers with the test of the status left out.
RECURSIVE WorkerLoopAnyStatus(_, _, _, _)
WorkerLoopAnyStatus(ns, order, replies, acc) ==
    IF order = <<>> THEN acc
    ELSE LET node == ns[Head(order)]
             rest == Tail(order)
             r == replies[node.id]
             called == [acc EXCEPT !.calls = Append(@, node.id)]
         IN IF NewRequestFails(node.address) THEN WorkerLoopAnyStatus(ns, rest, replies, acc)
            ELSE IF r.err THEN WorkerLoopAnyStatus(ns, rest, replies, called)
            ELSE IF r.code = StatusOK /\ r.decodable
            THEN WorkerLoopAnyStatus(ns, rest, replies,
                     [called EXCEPT !.list = @ \o Entries(node.id, r.containers)])
            ELSE WorkerLoopAnyStatus(ns, rest, replies, called)

\* The loop of handleAllContainers over the nodes, in the order the slice of
\* GetAllNodes has them; acc.calls are the nodes client.Do was called for and
\* acc.list is allContainers.
RECURSIVE WorkerLoop(_, _, _, _)
WorkerLoop(ns, order, replies, acc) ==
    IF order = <<>> THEN acc
    ELSE LET node == ns[Head(order)]
             rest == Tail(order)
             r == replies[node.id]
             called == [acc EXCEPT !.calls = Append(@, node.id)]
         IN IF node.status # NodeStatusOnline THEN WorkerLoop(ns, rest, replies, acc)
            ELSE IF NewRequestFails(node.address) THEN WorkerLoop(ns, rest, replies, acc)
            ELSE IF r.err THEN WorkerLoop(ns, rest, replies, called)
            ELSE IF r.code = StatusOK /\ r.decodable
            THEN WorkerLoop(ns, rest, replies,
                     [called EXCEPT !.list = @ \o Entries(node.id, r.containers)])
            ELSE WorkerLoop(ns, rest, replies, called)

\* handleAllContainers: the containers of the master itself, then those of
\* the workers.
AllContainers(ns, order, replies, local) ==
    WorkerLoop(ns, order, replies, [calls |-> <<>>, list |-> Entries("local", local)])

\* GET /api/containers/all, a route of master mode.
HandleAllContainers(order, replies, local) ==
    /\ mode = ModeMaster
    /\ IF mode # ModeMaster
       THEN last' = [op |-> "all", code |-> StatusBadRequest]
       ELSE LET out == AllContainers(nodes, order, replies, local)
            IN last' = [op |-> "all", code |-> StatusOK, replies |-> replies,
                        calls |-> out.calls, result |-> out.list]
    /\ UNCHANGED <<regVars, now, tokVars, extVars>>

NextAgg ==
    \/ \E d \in TickSteps : Tick(d)
    \/ \E req \in AggRegisterRequests : HandleNodeRegister(req)
    \/ HealthCheck
    \/ \E order \in Orders(DOMAIN nodes), replies \in [NodeIds -> WorkerReplies],
          local \in LocalContainerLists : HandleAllContainers(order, replies, local)

SpecAgg == Init /\ [][NextAgg]_vars

----------------------------------------------------------------------------
(* Claims about the aggregator, checked under SpecAgg *)

Range(seq) == {seq[i] : i \in 1..Len(seq)}

\* The nodes whose call came back with a list of containers.
Responders == {id \in Range(last.calls) : last.replies[id].code = StatusOK /\ last.replies[id].decodable}

\* What the responders sent, each entry under the id of its node.
RespondersData ==
    UNION {Range(Entries(id, last.replies[id].containers)) : id \in Responders}

\* The entries of the merged result that are not attributed to a worker.
LocalData == {e \in Range(last.result) : e.node_id = "local"}

----------------------------------------------------------------------------
(* The worker processes: one registration at startup, then heartbeats *)

\* The master and the worker processes; NODE_SECRET of the workers may differ
\* from the master's.
InitFleet ==
    /\ mode = ModeMaster
    /\ now = 0
    /\ nodes = <<>>
    /\ nextTick = HealthCheckInterval
    /\ last = NoRequest
    /\ InitCache
    /\ skew = 0
    /\ minterSecret \in Secrets
    /\ verifierSecret = DefaultSecret
    /\ inflight = <<>>
    /\ InitExt

\* The headers registerToMaster and sendHeartbeatToMaster set for node w.
WorkerHeaders(w) ==
    [nodeID |-> w, token |-> GenerateNodeToken(minterSecret, w, now + skew)]

\* What the master answers a call of worker w that reached it: 401 from
\* nodeAuthMiddleware, else the 200 of the handler (the worker's requests are
\* well-formed POSTs).
MasterAnswer(w) ==
    IF NodeAuthRejects(WorkerHeaders(w), verifierSecret, now)
    THEN StatusUnauthorized ELSE StatusOK

\* The status the client sees: 0 stands for the error of http.Client.Do.
ClientSees(w, delivered) == IF delivered THEN MasterAnswer(w) ELSE 0

\* A heartbeat loop that registers the node when the master does not know it.
BeatReRegisters(ns, w, r, t) ==
    IF w \in DOMAIN ns
    THEN UpdateNodeResources(ns, w, r.cpu, r.memory, r.disk, r.containers, t)
    ELSE RegisterNode(ns, PlainBody(w), t)

\* What an accepted request of sendHeartbeatToMaster does to the registry.
Beat(ns, w, r, t) ==
    UpdateNodeResources(ns, w, r.cpu, r.memory, r.disk, r.containers, t)

\* main in worker mode: registerToMaster once, its error only logged, then
\* the heartbeat goroutine is started.
WorkerStartup(w, delivered) ==
    /\ worker[w].pc = "start"
    /\ LET code == ClientSees(w, delivered)
       IN /\ nodes' = IF code = StatusOK THEN RegisterNode(nodes, PlainBody(w), now) ELSE nodes
          /\ worker' = [worker EXCEPT ![w] = [pc |-> "beating", registered |-> code = StatusOK]]
          /\ last' = [op |-> "startup", node |-> w, code |-> code]
    /\ UNCHANGED <<mode, now, nextTick, tokVars, ctlVars, raceVars, authVars, cacheVars>>

\* One round of the loop of sendHeartbeatToMaster.
WorkerHeartbeat(w, r, delivered) ==
    /\ worker[w].pc = "beating"
    /\ LET code == ClientSees(w, delivered)
       IN /\ nodes' = IF code = StatusOK THEN Beat(nodes, w, r, now) ELSE nodes
          /\ last' = [op |-> "beat", node |-> w, code |-> code]
    /\ UNCHANGED <<mode, now, nextTick, tokVars, extVars>>

\* The worker process is stopped and started again.
WorkerRestart(w) ==
    /\ worker[w].pc = "beating"
    /\ worker' = [worker EXCEPT ![w] = [pc |-> "start", registered |-> FALSE]]
    /\ last' = [op |-> "restart", node |-> w]
    /\ UNCHANGED <<regVars, now, tokVars, ctlVars, raceVars, authVars, cacheVars>>

NextWorker ==
    \/ \E d \in TickSteps : Tick(d)
    \/ \E w \in NodeIds, delivered \in BOOLEAN : WorkerStartup(w, delivered)
    \/ \E w \in NodeIds, delivered \in BOOLEAN : WorkerHeartbeat(w, FirstReport, delivered)
    \/ \E w \in NodeIds : WorkerRestart(w)
    \/ \E req \in TimedRegisterRequests : HandleNodeRegister(req)
    \/ HealthCheck

SpecWorker == InitFleet /\ [][NextWorker]_vars

----------------------------------------------------------------------------
(* Claims about the workers, checked under SpecWorker *)

\* Worker w is past a startup registration that failed, and the master holds
\* no record of it.
Invisible(w) ==
    /\ worker[w].pc = "beating"
    /\ ~worker[w].registered
    /\ w \notin DOMAIN nodes

----------------------------------------------------------------------------
(* The registry as the goroutines see it: a map of pointers under a RWMutex *)

\* The largest number of NodeInfo objects the master allocates.
MaxAllocs == 2

\* The last moment of the clock in SpecRace.
MaxTimeRace == 31

\* The goroutines of the master: request handlers and the health check.
Procs == {"p1", "p2"}

Idle == [pc |-> "idle"]

\* UpdateNodeStatus: status and LastSeen of a known node, nothing otherwise.
UpdateNodeStatus(ns, nodeID, status, t) ==
    IF nodeID \in DOMAIN ns
    THEN [ns EXCEPT ![nodeID] = [@ EXCEPT !.status = status, !.lastSeen = t]]
    ELSE ns

\* nm.nodes with every pointer followed.
Deref == [id \in DOMAIN refs |-> heap[refs[id]]]

\* The heap after the objects nm.nodes points to took the values of ns.
WriteBack(ns) ==
    [a \in DOMAIN heap |->
        IF \E id \in DOMAIN refs : refs[id] = a
        THEN ns[CHOOSE id \in DOMAIN refs : refs[id] = a]
        ELSE heap[a]]

\* The calls that take nm.RLock, and the calls that take nm.Lock.
ReadCalls ==
    {[kind |-> "list", id |-> ""], [kind |-> "get", id |-> "w1"]}

WriteCalls ==
    {[kind |-> "register", id |-> i] : i \in NodeIds}
    \cup {[kind |-> k, id |-> "w1"] : k \in {"resources", "status"}}
    \cup {[kind |-> "sweep", id |-> ""]}

\* The pointers GetAllNodes or GetNode returns.
Returned(call) ==
    IF call.kind = "list" THEN {refs[id] : id \in DOMAIN refs}
    ELSE IF call.id \in DOMAIN refs THEN {refs[call.id]} ELSE {}

TickRace ==
    /\ now + (HeartbeatTimeout + 1) <= MaxTimeRace
    /\ now' = now + (HeartbeatTimeout + 1)
    /\ last' = [op |-> "tick"]
    /\ UNCHANGED <<regVars, tokVars, extVars>>

\* nm.RLock() of GetAllNodes or GetNode: waits while a writer holds the lock.
RLock(p, call) ==
    /\ procs[p].pc = "idle"
    /\ lock.writer = <<>>
    /\ lock' = [lock EXCEPT !.readers = @ \cup {p}]
    /\ procs' = [procs EXCEPT ![p] = [pc |-> "rlocked", call |-> call]]
    /\ last' = [op |-> "rlock", proc |-> p]
    /\ UNCHANGED <<regVars, now, tokVars, ctlVars, wrkVars, authVars, refs, heap, cacheVars>>

\* The rest of GetAllNodes or GetNode: the pointers are copied out of the map
\* and the deferred RUnlock runs.  at is what the objects held on return.
ReturnPointers(p) ==
    /\ procs[p].pc = "rlocked"
    /\ lock' = [lock EXCEPT !.readers = @ \ {p}]
    /\ LET ptrs == Returned(procs[p].call)
       IN procs' = [procs EXCEPT ![p] = [pc |-> "holding", call |-> procs[p].call,
                                         ptrs |-> ptrs, at |-> [a \in ptrs |-> heap[a]]]]
    /\ last' = [op |-> "return", proc |-> p]
    /\ UNCHANGED <<regVars, now, tokVars, ctlVars, wrkVars, authVars, refs, heap, cacheVars>>

\* The handler starts on the fields of the objects it was given: the encoder
\* of handleNodesList, or targetNode.Status in handleContainerSchedule.  The
\* fields up to Containers are read here.
ReadFields(p) ==
    /\ procs[p].pc = "holding"
    /\ procs' = [procs EXCEPT ![p] = [pc |-> "reading", call |-> procs[p].call,
                                      ptrs |-> procs[p].ptrs, at |-> procs[p].at,
                                      seen |-> [a \in procs[p].ptrs |-> heap[a]]]]
    /\ last' = [op |-> "read", proc |-> p]
    /\ UNCHANGED <<regVars, now, tokVars, ctlVars, wrkVars, authVars, refs, heap, lock, cacheVars>>

\* The handler reads the remaining field, LastSeen, and answers.
ReadRest(p) ==
    /\ procs[p].pc = "reading"
    /\ procs' = [procs EXCEPT ![p] = Idle]
    /\ last' = [op |-> "answer", proc |-> p,
                result |-> [a \in procs[p].ptrs |->
                              [procs[p].seen[a] EXCEPT !.lastSeen = heap[a].lastSeen]]]
    /\ UNCHANGED <<regVars, now, tokVars, ctlVars, wrkVars, authVars, refs, heap, lock, cacheVars>>

\* A lock that is taken without waiting for its holders.
LockWithoutWaiting(p, call) ==
    /\ procs[p].pc = "idle"
    /\ call.kind = "register" => Len(heap) < MaxAllocs
    /\ lock' = [lock EXCEPT !.writer = <<p>>]
    /\ procs' = [procs EXCEPT ![p] = [pc |-> "wlocked", call |-> call]]
    /\ last' = [op |-> "lock", proc |-> p]
    /\ UNCHANGED <<regVars, now, tokVars, ctlVars, wrkVars, authVars, refs, heap, cacheVars>>

\* nm.Lock() of RegisterNode, UpdateNodeResources, UpdateNodeStatus or
\* checkNodeHealth: waits while anyone holds the lock.
Lock(p, call) ==
    /\ procs[p].pc = "idle"
    /\ lock.writer = <<>>
    /\ lock.readers = {}
    /\ call.kind = "register" => Len(heap) < MaxAllocs
    /\ lock' = [lock EXCEPT !.writer = <<p>>]
    /\ procs' = [procs EXCEPT ![p] = [pc |-> "wlocked", call |-> call]]
    /\ last' = [op |-> "lock", proc |-> p]
    /\ UNCHANGED <<regVars, now, tokVars, ctlVars, wrkVars, authVars, refs, heap, cacheVars>>

\* UpdateNodeResources between its assignments: the gauges are written,
\* LastSeen is not yet.
WriteGauges(p) ==
    /\ procs[p].pc = "wlocked"
    /\ procs[p].call.kind = "resources"
    /\ LET id == procs[p].call.id
           r == FirstReport
           done == UpdateNodeResources(Deref, id, r.cpu, r.memory, r.disk, r.containers, now)
       IN heap' = IF id \in DOMAIN refs
                  THEN WriteBack([done EXCEPT ![id].lastSeen = Deref[id].lastSeen])
                  ELSE heap
    /\ procs' = [procs EXCEPT ![p] = [pc |-> "wlocked2", call |-> procs[p].call]]
    /\ last' = [op |-> "write", proc |-> p]
    /\ UNCHANGED <<regVars, now, tokVars, ctlVars, wrkVars, authVars, refs, lock, cacheVars>>

\* The writes of the call that holds the lock, and the deferred Unlock.
\* RegisterNode puts a new object into the map; the others assign to the
\* fields of the objects the map points to.
WriteAndUnlock(p) ==
    /\ procs[p].pc \in {"wlocked", "wlocked2"}
    /\ procs[p].pc = "wlocked2" <=> procs[p].call.kind = "resources"
    /\ LET call == procs[p].call
           r == FirstReport
       IN CASE call.kind = "register" ->
                 /\ heap' = Append(heap, RegisterNode(Deref, PlainBody(call.id), now)[call.id])
                 /\ refs' = MapPut(refs, call.id, Len(heap) + 1)
            [] call.kind = "resources" ->
                 /\ heap' = WriteBack(UpdateNodeResources(Deref, call.id, r.cpu, r.memory,
                                                          r.disk, r.containers, now))
                 /\ UNCHANGED refs
            [] call.kind = "status" ->
                 /\ heap' = WriteBack(UpdateNodeStatus(Deref, call.id, NodeStatusError, now))
                 /\ UNCHANGED refs
            [] call.kind = "sweep" ->
                 /\ heap' = WriteBack(CheckNodeHealth(Deref, now))
                 /\ UNCHANGED refs
    /\ lock' = [lock EXCEPT !.writer = <<>>]
    /\ procs' = [procs EXCEPT ![p] = Idle]
    /\ last' = [op |-> "unlock", proc |-> p]
    /\ UNCHANGED <<regVars, now, tokVars, ctlVars, wrkVars, authVars, cacheVars>>

InitRaceSpec ==
    /\ mode = ModeMaster
    /\ now = 0
    /\ nodes = <<>>
    /\ nextTick = HealthCheckInterval
    /\ last = NoRequest
    /\ InitCache
    /\ InitToken
    /\ InitCtl
    /\ InitWorker
    /\ InitAuth
    /\ refs = <<>>
    /\ heap = <<>>
    /\ lock = [writer |-> <<>>, readers |-> {}]
    /\ procs = [p \in Procs |-> Idle]

NextRace ==
    \/ TickRace
    \/ \E p \in Procs, call \in ReadCalls : RLock(p, call)
    \/ \E p \in Procs : ReturnPointers(p)
    \/ \E p \in Procs : ReadFields(p)
    \/ \E p \in Procs : ReadRest(p)
    \/ \E p \in Procs, call \in WriteCalls : Lock(p, call)
    \/ \E p \in Procs : WriteGauges(p)
    \/ \E p \in Procs : WriteAndUnlock(p)

SpecRace == InitRaceSpec /\ [][NextRace]_vars

----------------------------------------------------------------------------
(* Claims about concurrent access, checked under SpecRace *)

\* Goroutine p is inside a call that holds nm.Lock.
Writing(p) == procs[p].pc \in {"wlocked", "wlocked2"}

\* The objects whose fields the call of p assigns to (RegisterNode assigns to
\* an object that is not in the map yet).
WrittenObjects(p) ==
    LET call == procs[p].call
    IN IF call.kind = "sweep" THEN {refs[id] : id \in DOMAIN refs}
       ELSE IF call.kind \in {"resources", "status"} /\ call.id \in DOMAIN refs
       THEN {refs[call.id]}
       ELSE {}

\* Goroutine q is in the middle of reading fields of objects it was given.
ReadingFields(q) == procs[q].pc = "reading"

\* C14: while one goroutine writes to the registry no other goroutine writes
\* to it, none is inside get, list or select_best, and no handler is reading
\* the fields of a record the writer assigns to.
SingleWriterMultiReader ==
    \A p \in Procs : Writing(p) =>
        \A q \in Procs \ {p} :
            /\ ~Writing(q)
            /\ procs[q].pc # "rlocked"
            /\ ~(ReadingFields(q) /\ procs[q].ptrs \cap WrittenObjects(p) # {})

\* C15: the records a handler holds from list() or get() keep the field
\* values they had when the call returned, whatever is applied to the
\* registry afterwards.
ReturnedRecordsAreSnapshots ==
    \A p \in Procs :
        procs[p].pc \in {"holding", "reading"} =>
            \A a \in procs[p].ptrs : heap[a] = procs[p].at[a]

----------------------------------------------------------------------------
(* The dispatcher: POST /api/containers/schedule *)

ScheduleRequests ==
    {[method |-> "POST", valid |-> TRUE, nodeID |-> i] : i \in NodeIds \cup {""}}
    \cup {[method |-> "GET", valid |-> TRUE, nodeID |-> ""],
          [method |-> "POST", valid |-> FALSE, nodeID |-> ""]}

\* What the POST to the worker's /api/containers/create comes to: an error of
\* http.Client.Do, or the status the worker answers.
CreateReplies ==
    {[err |-> TRUE, code |-> 0]} \cup
    {[err |-> FALSE, code |-> c] :
        c \in {StatusOK, StatusUnauthorized, StatusInternalServerError}}

\* No call was made, no node is named.
Refused(code, selected) ==
    [code |-> code, calls |-> <<>>, named |-> <<>>, selected |-> selected]

\* The second half of handleContainerSchedule, naming the node in every
\* response.
ForwardNamingAlways(node, reply) ==
    IF NewRequestFails(node.address) THEN Refused(StatusInternalServerError, <<node.id>>)
    ELSE [code |-> IF reply.err THEN StatusInternalServerError ELSE reply.code,
          calls |-> <<node.id>>, named |-> <<node.id>>, selected |-> <<node.id>>]

\* The second half of handleContainerSchedule: the request to the target
\* node and what is made of its answer.
Forward(node, reply) ==
    IF NewRequestFails(node.address) THEN Refused(StatusInternalServerError, <<node.id>>)
    ELSE IF reply.err
    THEN [code |-> StatusInternalServerError, calls |-> <<node.id>>, named |-> <<>>,
          selected |-> <<node.id>>]
    ELSE IF reply.code # StatusOK
    THEN [code |-> reply.code, calls |-> <<node.id>>, named |-> <<>>, selected |-> <<node.id>>]
    ELSE [code |-> StatusOK, calls |-> <<node.id>>, named |-> <<node.id>>,
          selected |-> <<node.id>>]

\* A dispatcher that turns to the selector when the named node cannot be
\* used.
ScheduleFallsBack(ns, req, order, reply) ==
    IF ~req.valid THEN Refused(StatusBadRequest, <<>>)
    ELSE IF req.nodeID # "" /\ req.nodeID \in DOMAIN ns
            /\ ns[req.nodeID].status = NodeStatusOnline
    THEN Forward(ns[req.nodeID], reply)
    ELSE LET best == SelectBestNode(ns, order)
         IN IF best.err THEN Refused(StatusInternalServerError, <<>>)
            ELSE Forward(ns[best.node[1]], reply)

\* handleContainerSchedule after its tests of the method and the mode.
Schedule(ns, req, order, reply) ==
    IF ~req.valid THEN Refused(StatusBadRequest, <<>>)
    ELSE IF req.nodeID # ""
    THEN IF req.nodeID \notin DOMAIN ns THEN Refused(StatusBadRequest, <<>>)
         ELSE IF ns[req.nodeID].status # NodeStatusOnline THEN Refused(StatusBadRequest, <<>>)
         ELSE Forward(ns[req.nodeID], reply)
    ELSE LET best == SelectBestNode(ns, order)
         IN IF best.err THEN Refused(StatusInternalServerError, <<>>)
            ELSE Forward(ns[best.node[1]], reply)

\* POST /api/containers/schedule, a route of master mode.
HandleContainerSchedule(req, order, reply) ==
    /\ mode = ModeMaster
    /\ IF req.method # "POST"
       THEN last' = [op |-> "schedule", req |-> req, order |-> order]
                    @@ Refused(StatusMethodNotAllowed, <<>>)
       ELSE IF mode # ModeMaster
       THEN last' = [op |-> "schedule", req |-> req, order |-> order]
                    @@ Refused(StatusBadRequest, <<>>)
       ELSE last' = [op |-> "schedule", req |-> req, order |-> order]
                    @@ Schedule(nodes, req, order, reply)
    /\ UNCHANGED <<regVars, now, tokVars, extVars>>

NextSchedule ==
    \/ \E d \in TickSteps : Tick(d)
    \/ \E req \in AggRegisterRequests : HandleNodeRegister(req)
    \/ \E req \in TimedHeartbeatRequests : HandleNodeHeartbeat(req)
    \/ HealthCheck
    \/ \E req \in ScheduleRequests, order \in Orders(DOMAIN nodes), reply \in CreateReplies :
          HandleContainerSchedule(req, order, reply)

SpecSchedule == Init /\ [][NextSchedule]_vars

----------------------------------------------------------------------------
(* Claims about the dispatcher, checked under SpecSchedule *)

\* The last request was a well-formed schedule request that names no node.
ScheduledWithoutTarget ==
    /\ last.op = "schedule"
    /\ last.req.method = "POST"
    /\ last.req.valid
    /\ last.req.nodeID = ""

\* What the placement selector returns for the registry of the last request.
Selected == SelectBestNode(nodes, last.order)

\* C16 as stated: without a target the selector decides; when it finds no node
\* the answer is an error and no call is made; otherwise exactly one call is
\* made, to the selected node, and the response names that node.
ScheduleCallsAndNamesSelected ==
    ScheduledWithoutTarget =>
        IF Selected.err
        THEN last.code >= StatusBadRequest /\ last.calls = <<>>
        ELSE last.calls = Selected.node /\ last.named = Selected.node

\* C16 amended: without a target the selector decides; when it finds no node
\* the answer is an error and no call is made; otherwise the only call made
\* is to the selected node (none when no request can be built from its
\* address), the response names that node when the worker answered 200, and
\* is an error that names no node when the call failed or the worker
\* answered another status.
ScheduleNamesSelectedOnSuccess ==
    ScheduledWithoutTarget =>
        IF Selected.err
        THEN last.code >= StatusBadRequest /\ last.calls = <<>> /\ last.named = <<>>
        ELSE /\ last.calls \in {<<>>, Selected.node}
             /\ last.calls = <<>> <=> NewRequestFails(nodes[Selected.node[1]].address)
             /\ IF last.code = StatusOK
                THEN last.calls = Selected.node /\ last.named = Selected.node
                ELSE last.named = <<>>

\* C16 happens: the selector had two online nodes to choose from, the worker
\* created the container, and the response names the node.
ScheduledOnTheBetterOfTwo ==
    /\ ScheduledWithoutTarget
    /\ \A id \in NodeIds : id \in DOMAIN nodes /\ nodes[id].status = NodeStatusOnline
    /\ \E id, other \in NodeIds : /\ Load(nodes[id]) < Load(nodes[other])
                                  /\ Selected.node = <<id>>
    /\ last.code = StatusOK
    /\ last.named = Selected.node

----------------------------------------------------------------------------
(* The registry with every operation of its interface *)

Statuses == {NodeStatusOnline, NodeStatusOffline, NodeStatusError}

\* A call of NodeManager.UpdateNodeStatus.
ApiUpdateNodeStatus(id, status) ==
    /\ mode = ModeMaster
    /\ nodes' = UpdateNodeStatus(nodes, id, status, now)
    /\ last' = [op |-> "status", id |-> id, status |-> status, before |-> StatusBefore(id)]
    /\ UNCHANGED <<mode, now, nextTick, tokVars, extVars>>

NextApi ==
    \/ \E d \in TickSteps : Tick(d)
    \/ \E req \in TimedRegisterRequests : HandleNodeRegister(req)
    \/ \E req \in TimedHeartbeatRequests : HandleNodeHeartbeat(req)
    \/ \E id \in NodeIds, status \in Statuses : ApiUpdateNodeStatus(id, status)
    \/ HandleNodesList
    \/ HealthCheck

SpecApi == Init /\ [][NextApi]_vars

----------------------------------------------------------------------------
(* Claims about the whole interface, checked under SpecApi *)

\* C17: no step removes an id from list(); an id enters it only by a
\* successful register of that id; and the records of list() have pairwise
\* distinct ids, one for each id of the registry.
MembershipOnlyGrows ==
    [][/\ DOMAIN nodes \subseteq DOMAIN nodes'
       /\ \A id \in DOMAIN nodes' \ DOMAIN nodes :
             /\ last'.op = "register"
             /\ last'.code = StatusOK
             /\ last'.req.body.id = id
       /\ {n.id : n \in GetAllNodes(nodes')} = DOMAIN nodes'
       /\ \A n, m \in GetAllNodes(nodes') : n.id = m.id => n = m]_vars

\* C17 happens: a sweep has just run over a record that has been silent for
\* twice the timeout and more, and the record is still listed, offline.
LongDeadNodeStillListed ==
    /\ last.op = "sweep"
    /\ \E n \in GetAllNodes(nodes) :
          /\ n.status = NodeStatusOffline
          /\ now - n.lastSeen >= 2 * HeartbeatTimeout

\* C18: a sweep leaves every record as it was, except that an online record
\* whose last_seen is more than 30 back becomes offline; it sets no record
\* online, and touches no offline record, no record in error and no online
\* record seen within 30.
SweepOnlyDemotes ==
    [][last'.op = "sweep" =>
          /\ DOMAIN nodes' = DOMAIN nodes
          /\ \A id \in DOMAIN nodes :
                \/ nodes'[id] = nodes[id]
                \/ /\ nodes[id].status = NodeStatusOnline
                   /\ now - nodes[id].lastSeen > HeartbeatTimeout
                   /\ nodes'[id] = [nodes[id] EXCEPT !.status = NodeStatusOffline]]_vars

\* C18 happens: a sweep has just passed over a record in error that has been
\* silent for more than 30, next to a record it left offline.
SweepPassedOverErrorRecord ==
    /\ last.op = "sweep"
    /\ \E id, other \in DOMAIN nodes :
          /\ nodes[id].status = NodeStatusError
          /\ now - nodes[id].lastSeen > HeartbeatTimeout
          /\ nodes[other].status = NodeStatusOffline

----------------------------------------------------------------------------
(* A further claim about the registry, checked under Spec *)

\* C19: whatever is sent to the register and heartbeat endpoints and however
\* the sweeps fall, every record is online or offline.
StatusIsOnlineOrOffline ==
    \A id \in DOMAIN nodes : nodes[id].status \in {NodeStatusOnline, NodeStatusOffline}

\* C19 happens: a registration whose body carried the status error was
\* accepted, and the record is online.
RegisteredWithErrorInBody ==
    /\ last.op = "register"
    /\ last.code = StatusOK
    /\ last.req.body.status = NodeStatusError
    /\ nodes[last.req.body.id].status = NodeStatusOnline

----------------------------------------------------------------------------
(* Human sessions: login, authMiddleware, the forced change of password *)

\* The last moment of the clock in SpecAuth: 36 hours.
MaxTimeAuth == 129600

JwtSecret == "rabbit-panel-secret-key-change-in-production"

\* 24 * time.Hour, the life of a token and of its session.
SessionLifetime == 24 * SecondsPerHour

AuthTickStep == 12 * SecondsPerHour

DefaultAdmin == "admin"

Usernames == {DefaultAdmin, "nobody"}

\* A password validatePasswordStrength accepts, and the default one, which
\* it does not (five letters, no upper case, digit or special character).
StrongPassword == "Str0ng!Pass"

Passwords == {DefaultAdmin, StrongPassword}

ValidatePasswordStrength(pw) == pw = StrongPassword

\* bcrypt: a hash matches the password it was made from, and no other.
BcryptHash(pw) == <<"bcrypt", pw>>

CompareHashAndPassword(hash, pw) == hash = BcryptHash(pw)

ChangePasswordPath == "/api/auth/change-password"
LogoutPath == "/api/auth/logout"
ProtectedPath == "/api/nodes"

\* No Authorization header and no cookie.
NoToken == [username |-> "", need |-> FALSE, exp |-> 0, key |-> ""]

\* generateToken: the claims, signed with jwtSecret.
GenerateToken(username, need, t) ==
    [username |-> username, need |-> need, exp |-> t + SessionLifetime, key |-> JwtSecret]

\* A token signed with another key.
ForgedToken == [username |-> DefaultAdmin, need |-> FALSE, exp |-> 2 * MaxTimeAuth, key |-> "guess"]

\* jwt.Parse: the signature and the exp claim.
JwtParses(token, t) == token.key = JwtSecret /\ t <= token.exp

SessionOfClaims(token) ==
    [username |-> token.username, expiresAt |-> token.exp, need |-> token.need]

\* The session verifyToken works with: the stored one, else one made from
\* the claims.
SessionFor(ss, token) ==
    IF token \in DOMAIN ss THEN ss[token] ELSE SessionOfClaims(token)

\* verifyToken returns a session and no error.
VerifyTokenOk(ss, token, t) ==
    JwtParses(token, t) /\ t <= SessionFor(ss, token).expiresAt

\* The sessions after verifyToken: a missing session is stored, an expired
\* one deleted.
VerifyTokenSessions(ss, token, t) ==
    IF ~JwtParses(token, t) THEN ss
    ELSE IF t <= SessionFor(ss, token).expiresAt
    THEN MapPut(ss, token, SessionFor(ss, token))
    ELSE [x \in DOMAIN ss \ {token} |-> ss[x]]

\* authMiddleware without the test of NeedChangePassword.
AuthMiddlewareUnforced(ss, token, path, t) ==
    IF token = NoToken THEN [code |-> StatusUnauthorized, sessions |-> ss]
    ELSE IF ~VerifyTokenOk(ss, token, t)
    THEN [code |-> StatusUnauthorized, sessions |-> VerifyTokenSessions(ss, token, t)]
    ELSE [code |-> 0, sessions |-> VerifyTokenSessions(ss, token, t)]

\* authMiddleware on a wrapped route: the status it answers itself, or 0
\* when it calls next; and the sessions it leaves.
AuthMiddleware(ss, token, path, t) ==
    IF token = NoToken THEN [code |-> StatusUnauthorized, sessions |-> ss]
    ELSE IF ~VerifyTokenOk(ss, token, t)
    THEN [code |-> StatusUnauthorized, sessions |-> VerifyTokenSessions(ss, token, t)]
    ELSE IF SessionFor(ss, token).need /\ path # ChangePasswordPath
    THEN [code |-> StatusForbidden, sessions |-> VerifyTokenSessions(ss, token, t)]
    ELSE [code |-> 0, sessions |-> VerifyTokenSessions(ss, token, t)]

\* The tokens a client can present: none, a forged one, or one it was given.
Presentable == {NoToken, ForgedToken} \cup issued

InitAuthSpec ==
    /\ mode = ModeMaster
    /\ now = 0
    /\ nodes = <<>>
    /\ nextTick = HealthCheckInterval
    /\ last = NoRequest
    /\ InitCache
    /\ InitToken
    /\ InitCtl
    /\ InitWorker
    /\ InitRace
    /\ sessions = <<>>
    /\ users = [u \in {DefaultAdmin} |-> [hash |-> BcryptHash(DefaultAdmin), need |-> TRUE]]
    /\ issued = {}

TickAuth ==
    /\ now + AuthTickStep <= MaxTimeAuth
    /\ now' = now + AuthTickStep
    /\ last' = [op |-> "tick"]
    /\ UNCHANGED <<regVars, tokVars, extVars>>

\* POST /api/auth/login, not behind the middleware.
HandleLogin(username, password) ==
    /\ IF username \in DOMAIN users /\ CompareHashAndPassword(users[username].hash, password)
       THEN LET token == GenerateToken(username, users[username].need, now)
            IN /\ sessions' = MapPut(sessions, token, SessionOfClaims(token))
               /\ issued' = issued \cup {token}
               /\ last' = [op |-> "login", code |-> StatusOK, token |-> token]
       ELSE /\ last' = [op |-> "login", code |-> StatusUnauthorized, token |-> NoToken]
            /\ UNCHANGED <<sessions, issued>>
    /\ UNCHANGED <<regVars, now, tokVars, ctlVars, wrkVars, raceVars, users, cacheVars>>

\* What the middleware answers when it does not call next.
Rejected(op, token, path, mw) ==
    /\ last' = [op |-> op, token |-> token, path |-> path, code |-> mw.code, ran |-> FALSE]
    /\ sessions' = mw.sessions
    /\ UNCHANGED <<users, issued>>

\* A route whose handler needs a user: authMiddleware(handler).
ProtectedRequest(token) ==
    /\ LET mw == AuthMiddleware(sessions, token, ProtectedPath, now)
       IN IF mw.code # 0
          THEN Rejected("protected", token, ProtectedPath, mw)
          ELSE /\ last' = [op |-> "protected", token |-> token, path |-> ProtectedPath,
                           code |-> StatusOK, ran |-> TRUE]
               /\ sessions' = mw.sessions
               /\ UNCHANGED <<users, issued>>
    /\ UNCHANGED <<regVars, now, tokVars, ctlVars, wrkVars, raceVars, cacheVars>>

\* /api/auth/logout: authMiddleware(handleLogout).
LogoutRequest(token) ==
    /\ LET mw == AuthMiddleware(sessions, token, LogoutPath, now)
       IN IF mw.code # 0
          THEN Rejected("logout", token, LogoutPath, mw)
          ELSE /\ last' = [op |-> "logout", token |-> token, path |-> LogoutPath,
                           code |-> StatusOK, ran |-> TRUE]
               /\ sessions' = [x \in DOMAIN mw.sessions \ {token} |-> mw.sessions[x]]
               /\ UNCHANGED <<users, issued>>
    /\ UNCHANGED <<regVars, now, tokVars, ctlVars, wrkVars, raceVars, cacheVars>>

ChangePasswordRequests ==
    {[method |-> "POST", valid |-> TRUE, old |-> o, new |-> n] : o, n \in Passwords}
    \cup {[method |-> "GET", valid |-> TRUE, old |-> DefaultAdmin, new |-> StrongPassword],
          [method |-> "POST", valid |-> FALSE, old |-> DefaultAdmin, new |-> StrongPassword]}

\* handleChangePassword behind the middleware; ss are the sessions the
\* middleware left, in which the token has a live session.
ChangePasswordBody(ss, token, req) ==
    LET session == ss[token]
        answer(code) == [op |-> "changepw", token |-> token, path |-> ChangePasswordPath,
                         code |-> code, ran |-> TRUE]
    IN IF req.method # "POST"
       THEN last' = answer(StatusMethodNotAllowed) /\ sessions' = ss /\ UNCHANGED <<users, issued>>
       ELSE IF ~req.valid \/ ~ValidatePasswordStrength(req.new)
       THEN last' = answer(StatusBadRequest) /\ sessions' = ss /\ UNCHANGED <<users, issued>>
       ELSE IF session.username \notin DOMAIN users
       THEN last' = answer(StatusInternalServerError) /\ sessions' = ss /\ UNCHANGED <<users, issued>>
       ELSE IF ~session.need /\ ~CompareHashAndPassword(users[session.username].hash, req.old)
       THEN last' = answer(StatusUnauthorized) /\ sessions' = ss /\ UNCHANGED <<users, issued>>
       ELSE /\ users' = [users EXCEPT ![session.username] =
                                [hash |-> BcryptHash(req.new), need |-> FALSE]]
            /\ sessions' = [ss EXCEPT ![token].need = FALSE]
            /\ issued' = issued \cup {GenerateToken(session.username, FALSE, now)}
            /\ last' = answer(StatusOK)

\* /api/auth/change-password: authMiddleware(handleChangePassword).
ChangePasswordRequest(token, req) ==
    /\ LET mw == AuthMiddleware(sessions, token, ChangePasswordPath, now)
       IN IF mw.code # 0
          THEN Rejected("changepw", token, ChangePasswordPath, mw)
          ELSE ChangePasswordBody(mw.sessions, token, req)
    /\ UNCHANGED <<regVars, now, tokVars, ctlVars, wrkVars, raceVars, cacheVars>>

NextAuth ==
    \/ TickAuth
    \/ \E u \in Usernames, pw \in Passwords : HandleLogin(u, pw)
    \/ \E token \in Presentable : ProtectedRequest(token)
    \/ \E token \in Presentable : LogoutRequest(token)
    \/ \E token \in Presentable, req \in ChangePasswordRequests : ChangePasswordRequest(token, req)

SpecAuth == InitAuthSpec /\ [][NextAuth]_vars

----------------------------------------------------------------------------
(* Claims about human sessions, checked under SpecAuth *)

AuthOps == {"protected", "logout", "changepw"}

\* The token verifies now: it parses and its session has not expired.
Live(token) ==
    /\ token.key = JwtSecret
    /\ now <= token.exp
    /\ token \in DOMAIN sessions => now <= sessions[token].expiresAt

\* The session of the token carries the flag: the stored session if there is
\* one, else the session verifyToken makes of the claims.
CarriesFlag(token) ==
    IF token \in DOMAIN sessions THEN sessions[token].need ELSE token.need

----------------------------------------------------------------------------
(* Claims about what the registry operations leave alone, checked under Spec *)

\* C21: a heartbeat for a registered id sets the four gauges of that record
\* to those of the request and its last_seen to now; the id, name, address,
\* role, labels and status of the record stay, and so does every other
\* record.
HeartbeatTouchesGaugesOnly ==
    [][(/\ last'.op = "heartbeat"
        /\ last'.req.method = "POST"
        /\ last'.req.valid
        /\ last'.req.body.node_id \in DOMAIN nodes)
       => LET b == last'.req.body
              was == nodes[b.node_id]
              is == nodes'[b.node_id]
          IN /\ DOMAIN nodes' = DOMAIN nodes
             /\ \A other \in DOMAIN nodes \ {b.node_id} : nodes'[other] = nodes[other]
             /\ is.cpu = b.cpu /\ is.memory = b.memory /\ is.disk = b.disk
             /\ is.containers = b.containers
             /\ is.lastSeen = now
             /\ is.id = was.id /\ is.name = was.name /\ is.address = was.address
             /\ is.mode = was.mode /\ is.labels = was.labels /\ is.status = was.status]_vars

\* C21 happens: a heartbeat has just been applied to a record that carries
\* labels and is offline, next to the record of another node.
HeartbeatAppliedToLabelledRecord ==
    /\ last.op = "heartbeat"
    /\ last.code = StatusOK
    /\ last.req.body.node_id \in DOMAIN nodes
    /\ LET n == nodes[last.req.body.node_id]
       IN /\ n.labels = ProdLabels
          /\ n.cpu = last.req.body.cpu
          /\ n.lastSeen = now
          /\ n.status = NodeStatusOffline
    /\ DOMAIN nodes = NodeIds

\* C22: across a sweep no field of any record other than status differs; in
\* particular the last_seen of a record the sweep sets offline stays what it
\* was.
SweepWritesStatusOnly ==
    [][last'.op = "sweep" =>
          /\ DOMAIN nodes' = DOMAIN nodes
          /\ \A id \in DOMAIN nodes :
                nodes'[id] = [nodes[id] EXCEPT !.status = nodes'[id].status]]_vars

\* C22 happens: after a sweep a record is offline whose last_seen and gauges
\* are those of its last heartbeat, more than 30 back.
DemotedRecordKeepsLastSeen ==
    /\ last.op = "sweep"
    /\ \E id \in DOMAIN nodes :
          /\ nodes[id].status = NodeStatusOffline
          /\ nodes[id].lastSeen > 0
          /\ now - nodes[id].lastSeen > HeartbeatTimeout
          /\ nodes[id].cpu > 0

----------------------------------------------------------------------------
(* The heartbeat loop on its ticker *)

\* The moment the clock of SpecBeat starts at, ten seconds before a minute.
StartOfBeats == 50

\* The last moment of the clock in SpecBeat.
MaxTimeBeat == 66

\* time.NewTicker(5 * time.Second)
BeatInterval == 5

InitBeat ==
    /\ mode = ModeMaster
    /\ now = StartOfBeats
    /\ nodes = <<>>
    /\ nextTick = HealthCheckInterval
    /\ last = NoRequest
    /\ InitCache
    /\ skew = 0
    /\ minterSecret \in Secrets
    /\ verifierSecret = DefaultSecret
    /\ inflight = <<>>
    /\ InitCtl
    /\ InitRace
    /\ InitAuth
    /\ worker = [w \in NodeIds |-> [pc |-> "start", registered |-> FALSE, nextBeat |-> 0]]

\* The loop logs the error of http.Client.Do; the status of an answer is not
\* looked at.
BeatLogged(code) == code = 0

\* A loop that waits two intervals after a heartbeat that failed.
AfterBeatBacksOff(w, code, t) ==
    [pc |-> "beating", registered |-> worker[w].registered,
     nextBeat |-> IF code = StatusOK THEN t + BeatInterval ELSE t + 2 * BeatInterval]

\* The loop after a round: `continue` or the end of the body, then the next
\* tick of the ticker.
AfterBeat(w, code, t) ==
    [pc |-> "beating", registered |-> worker[w].registered, nextBeat |-> t + BeatInterval]

\* A second passes, unless the ticker of some loop is due.
TickBeat ==
    /\ now < MaxTimeBeat
    /\ \A w \in NodeIds : worker[w].pc = "beating" => now < worker[w].nextBeat
    /\ now' = now + 1
    /\ last' = [op |-> "tick"]
    /\ UNCHANGED <<regVars, tokVars, extVars>>

\* main in worker mode: registerToMaster once, then the loop and its ticker
\* are started.
BootWorker(w, delivered) ==
    /\ worker[w].pc = "start"
    /\ hdr' = WorkerHeaders(w)
    /\ LET code == ClientSees(w, delivered)
       IN /\ nodes' = IF code = StatusOK THEN RegisterNode(nodes, PlainBody(w), now) ELSE nodes
          /\ worker' = [worker EXCEPT ![w] = [pc |-> "beating", registered |-> code = StatusOK,
                                              nextBeat |-> now + BeatInterval]]
          /\ last' = [op |-> "startup", node |-> w, code |-> code]
    /\ UNCHANGED <<mode, now, nextTick, tokVars, raceVars, authVars, cacheVars>>

\* The round of sendHeartbeatToMaster that the ticker starts.
BeatDue(w, delivered) ==
    /\ worker[w].pc = "beating"
    /\ now = worker[w].nextBeat
    /\ hdr' = WorkerHeaders(w)
    /\ LET code == ClientSees(w, delivered)
       IN /\ nodes' = IF code = StatusOK THEN Beat(nodes, w, FirstReport, now) ELSE nodes
          /\ worker' = [worker EXCEPT ![w] = AfterBeat(w, code, now)]
          /\ last' = [op |-> "beat", node |-> w, code |-> code, logged |-> BeatLogged(code)]
    /\ UNCHANGED <<mode, now, nextTick, tokVars, raceVars, authVars, cacheVars>>

NextBeat ==
    \/ TickBeat
    \/ \E w \in NodeIds, delivered \in BOOLEAN : BootWorker(w, delivered)
    \/ \E w \in NodeIds, delivered \in BOOLEAN : BeatDue(w, delivered)

\* The clock runs, and a goroutine whose ticker is due gets to run.
SpecBeat ==
    /\ InitBeat
    /\ [][NextBeat]_vars
    /\ WF_vars(TickBeat)
    /\ \A w \in NodeIds : WF_vars(\E delivered \in BOOLEAN : BeatDue(w, delivered))

----------------------------------------------------------------------------
(* Claims about the heartbeat loop, checked under SpecBeat *)

\* What every round of the loop does, whatever the send comes to: the loop
\* goes on, its next round is one interval ahead, the request carries the
\* worker's own id and a token minted for it now, and no record is created.
RoundKeepsLooping(w) ==
    /\ worker'[w].pc = "beating"
    /\ worker'[w].nextBeat = now + BeatInterval
    /\ hdr' = [nodeID |-> w, token |-> GenerateNodeToken(minterSecret, w, now + skew)]
    /\ DOMAIN nodes' = DOMAIN nodes

\* A heartbeat of w that failed at t is followed by an attempt at t + 5.
FailureIsFollowedByAttempt ==
    \A w \in NodeIds : \A t \in StartOfBeats..(MaxTimeBeat - BeatInterval) :
        (last.op = "beat" /\ last.node = w /\ last.code # StatusOK /\ now = t)
            ~> (last.op = "beat" /\ last.node = w /\ now = t + BeatInterval)

\* C23 as stated: the loop survives every failed send, logs it, and tries
\* again at the next tick with a fresh token for its own id, without backoff
\* and without registering.
LoopLogsAndRetries ==
    /\ [][\A w \in NodeIds : (last'.op = "beat" /\ last'.node = w) =>
            /\ RoundKeepsLooping(w)
            /\ last'.code # StatusOK => last'.logged]_vars
    /\ FailureIsFollowedByAttempt

\* C23 amended: the loop survives every failed send and tries again at the
\* next tick with a fresh token for its own id, without backoff and without
\* registering; it logs the failure when the call itself failed, and nothing
\* when the master answered, whatever the status of the answer.
LoopRetries ==
    /\ [][\A w \in NodeIds : (last'.op = "beat" /\ last'.node = w) =>
            /\ RoundKeepsLooping(w)
            /\ last'.logged <=> last'.code = 0]_vars
    /\ FailureIsFollowedByAttempt

\* C23 happens: a heartbeat has just failed in the minute after the one the
\* worker started in, the previous one having failed too.
SecondFailureInARow ==
    \E w \in NodeIds :
        /\ last.op = "beat"
        /\ last.node = w
        /\ last.code # StatusOK
        /\ now >= StartOfBeats + 2 * BeatInterval
        /\ w \notin DOMAIN nodes
        /\ hdr.token # GenerateNodeToken(minterSecret, w, StartOfBeats)

----------------------------------------------------------------------------
(* A further claim about the dispatcher, checked under SpecSchedule *)

\* The named node of the last schedule request can be used: it is registered
\* and online.
TargetUsable ==
    /\ last.req.nodeID \in DOMAIN nodes
    /\ nodes[last.req.nodeID].status = NodeStatusOnline

\* C24: every node the dispatcher calls is registered and online; a request
\* that names a node which is not is answered with an error and no call, and
\* otherwise only the named node is called; a request that names none calls
\* only the node the selector returned.
DispatcherCallsUsableNodesOnly ==
    last.op = "schedule" =>
        /\ \A i \in 1..Len(last.calls) :
              /\ last.calls[i] \in DOMAIN nodes
              /\ nodes[last.calls[i]].status = NodeStatusOnline
        /\ IF last.req.nodeID # ""
           THEN IF TargetUsable
                THEN last.calls \in {<<>>, <<last.req.nodeID>>}
                ELSE last.code >= StatusBadRequest /\ last.calls = <<>>
           ELSE last.calls \in {<<>>, SelectBestNode(nodes, last.order).node}

\* C24 happens: a request that named an offline node was refused without a
\* call, although another node was online for the selector to return.
OfflineTargetRefused ==
    /\ last.op = "schedule"
    /\ last.req.method = "POST"
    /\ last.req.valid
    /\ last.req.nodeID \in DOMAIN nodes
    /\ nodes[last.req.nodeID].status = NodeStatusOffline
    /\ last.code = StatusBadRequest
    /\ last.calls = <<>>
    /\ ~SelectBestNode(nodes, last.order).err

----------------------------------------------------------------------------
(* A further claim about the control plane, checked under SpecCtl *)

\* C25: a register or heartbeat request that passed the middleware as node X
\* creates or changes no record but that of X.
WritesAreBoundToTheCaller ==
    [][last'.op \in {"register", "heartbeat"} =>
          \A id \in (DOMAIN nodes \cup DOMAIN nodes') \ {hdr'.nodeID} :
              /\ id \in DOMAIN nodes
              /\ id \in DOMAIN nodes'
              /\ nodes'[id] = nodes[id]]_vars

----------------------------------------------------------------------------
(* Tokens and the node ids they are minted for *)

\* Node ids as a caller may choose them, among them one that is a prefix of
\* another and one that ends like a signed message.
BindIds == NodeIds \cup {"w", StampedId}

BindSteps == {20 * SecondsPerMinute, SecondsPerHour}

NextBind ==
    \/ \E d \in BindSteps : TickToken(d)
    \/ \E id \in BindIds : MintToken(id)
    \/ \E id \in BindIds : VerifyToken(id)

SpecBind == InitTokenSpec /\ [][NextBind]_vars

\* C26: a token is accepted only for the node id it was minted for and only
\* by a verifier that holds the secret it was minted under, whenever it is
\* verified.
TokenIsBoundToNodeAndSecret ==
    (last.op = "verify" /\ last.ok) =>
        /\ last.nodeID = inflight[1].nodeID
        /\ minterSecret = verifierSecret

\* C26 happens: a token minted for one id has just been refused for an id
\* that is the beginning of it, within the minute and under the same secret;
\* and for its own id the token verifies.
TokenRefusedForAnotherId ==
    /\ last.op = "verify"
    /\ ~last.ok
    /\ last.nodeID = "w1"
    /\ inflight[1].nodeID = StampedId
    /\ minterSecret = verifierSecret
    /\ skew = 0
    /\ MinuteOf(now) = MinuteOf(inflight[1].mintedAt)
    /\ VerifyNodeToken(verifierSecret, StampedId, inflight[1].token, now)

----------------------------------------------------------------------------
(* The health check and the heartbeat loops of the workers on one clock *)

\* The last moment of the clock in SpecHealthy.
MaxTimeHealthy == 42

\* Beside the loop's position a worker's entry keeps, for the claim, when the
\* master last applied a registration or heartbeat of the worker, and whether
\* so far every window of 30 seconds held one.
InitHealthy ==
    /\ mode = ModeMaster
    /\ now = 0
    /\ nodes = <<>>
    /\ nextTick = HealthCheckInterval
    /\ last = NoRequest
    /\ InitCache
    /\ InitToken
    /\ InitCtl
    /\ InitRace
    /\ InitAuth
    /\ worker = [w \in NodeIds |-> [pc |-> "start", registered |-> FALSE, nextBeat |-> 0,
                                    applied |-> 0, healthy |-> FALSE]]

\* The entry of a worker after a second in which the master applied nothing.
Unrefreshed(e, t) ==
    [e EXCEPT !.healthy = e.healthy /\ t - e.applied <= HeartbeatTimeout]

\* A second passes, unless the ticker of the health check or of some loop is
\* due.
TickHealthy ==
    /\ now < MaxTimeHealthy
    /\ now < nextTick
    /\ \A w \in NodeIds : worker[w].pc = "beating" => now < worker[w].nextBeat
    /\ now' = now + 1
    /\ worker' = [w \in NodeIds |-> Unrefreshed(worker[w], now + 1)]
    /\ last' = [op |-> "tick"]
    /\ UNCHANGED <<regVars, tokVars, ctlVars, raceVars, authVars, cacheVars>>

\* registerToMaster at the start of a worker, then the loop and its ticker.
RegisterToMaster(w, delivered) ==
    /\ worker[w].pc = "start"
    /\ hdr' = WorkerHeaders(w)
    /\ LET code == ClientSees(w, delivered)
       IN /\ nodes' = IF code = StatusOK THEN RegisterNode(nodes, PlainBody(w), now) ELSE nodes
          /\ worker' = [worker EXCEPT ![w] = [pc |-> "beating", registered |-> code = StatusOK,
                                              nextBeat |-> now + BeatInterval,
                                              applied |-> now, healthy |-> code = StatusOK]]
          /\ last' = [op |-> "startup", node |-> w, code |-> code]
    /\ UNCHANGED <<mode, now, nextTick, tokVars, raceVars, authVars, cacheVars>>

\* The round of sendHeartbeatToMaster that the ticker starts; the master
\* applies the heartbeat when the request reaches it and is let through.
SendHeartbeatToMaster(w, delivered) ==
    /\ worker[w].pc = "beating"
    /\ now = worker[w].nextBeat
    /\ hdr' = WorkerHeaders(w)
    /\ LET code == ClientSees(w, delivered)
       IN /\ nodes' = IF code = StatusOK THEN Beat(nodes, w, FirstReport, now) ELSE nodes
          /\ worker' = [worker EXCEPT ![w] =
                            [@ EXCEPT !.nextBeat = now + BeatInterval,
                                      !.applied = IF code = StatusOK THEN now ELSE @]]
          /\ last' = [op |-> "beat", node |-> w, code |-> code, logged |-> BeatLogged(code)]
    /\ UNCHANGED <<mode, now, nextTick, tokVars, raceVars, authVars, cacheVars>>

NextHealthy ==
    \/ TickHealthy
    \/ \E w \in NodeIds, delivered \in BOOLEAN : RegisterToMaster(w, delivered)
    \/ \E w \in NodeIds, delivered \in BOOLEAN : SendHeartbeatToMaster(w, delivered)
    \/ HealthCheckTick

SpecHealthy == InitHealthy /\ [][NextHealthy]_vars

----------------------------------------------------------------------------
(* Claims about healthy workers, checked under SpecHealthy *)

\* C27: a registered node of which the master has applied a heartbeat in
\* every window of 30 seconds is never set offline by a sweep, in whatever
\* order the sweep and the heartbeats of one moment are handled.
HealthyWorkerStaysOnline ==
    \A w \in NodeIds :
        (w \in DOMAIN nodes /\ worker[w].healthy) => nodes[w].status = NodeStatusOnline

\* C27 happens: a sweep has just run at the moment a heartbeat of a node is
\* due whose last one was applied exactly 30 seconds ago, and has left it
\* online, while it set the other node offline.
SweepBeforeTheHeartbeatAtThirty ==
    /\ last.op = "sweep"
    /\ \E w, v \in DOMAIN nodes :
          /\ worker[w].healthy
          /\ now - worker[w].applied = HeartbeatTimeout
          /\ worker[w].nextBeat = now
          /\ nodes[w].status = NodeStatusOnline
          /\ ~worker[v].healthy
          /\ nodes[v].status = NodeStatusOffline

----------------------------------------------------------------------------
(* checkNodeHealth statement by statement, among the other goroutines *)

\* now := time.Now(), and the range over nm.nodes begins.
SweepNow(p) ==
    /\ procs[p].pc = "wlocked"
    /\ procs[p].call.kind = "sweep"
    /\ procs' = [procs EXCEPT ![p] = [pc |-> "sweeping", call |-> procs[p].call,
                                      now |-> now, todo |-> DOMAIN refs]]
    /\ last' = [op |-> "sweepnow", proc |-> p]
    /\ UNCHANGED <<regVars, now, tokVars, ctlVars, wrkVars, authVars, refs, heap, lock, cacheVars>>

\* The next node of the range, in the order the map gives, and the two tests
\* on it: now.Sub(node.LastSeen) > 30*time.Second, node.Status == online.
SweepTest(p, id) ==
    /\ procs[p].pc = "sweeping"
    /\ id \in procs[p].todo
    /\ LET node == heap[refs[id]]
       IN procs' = [procs EXCEPT ![p] =
                       [pc |-> "tested", call |-> procs[p].call, now |-> procs[p].now,
                        todo |-> procs[p].todo \ {id}, id |-> id,
                        demote |-> Stale(node, procs[p].now) /\ node.status = NodeStatusOnline]]
    /\ last' = [op |-> "sweeptest", proc |-> p]
    /\ UNCHANGED <<regVars, now, tokVars, ctlVars, wrkVars, authVars, refs, heap, lock, cacheVars>>

\* node.Status = NodeStatusOffline, if the tests said so.
SweepWrite(p) ==
    /\ procs[p].pc = "tested"
    /\ heap' = IF procs[p].demote
               THEN [heap EXCEPT ![refs[procs[p].id]].status = NodeStatusOffline]
               ELSE heap
    /\ procs' = [procs EXCEPT ![p] = [pc |-> "sweeping", call |-> procs[p].call,
                                      now |-> procs[p].now, todo |-> procs[p].todo]]
    /\ last' = [op |-> "sweepwrite", proc |-> p]
    /\ UNCHANGED <<regVars, now, tokVars, ctlVars, wrkVars, authVars, refs, lock, cacheVars>>

\* The range is over; the deferred nm.Unlock() runs.
SweepUnlock(p) ==
    /\ procs[p].pc = "sweeping"
    /\ procs[p].todo = {}
    /\ lock' = [lock EXCEPT !.writer = <<>>]
    /\ procs' = [procs EXCEPT ![p] = Idle]
    /\ last' = [op |-> "unlock", proc |-> p]
    /\ UNCHANGED <<regVars, now, tokVars, ctlVars, wrkVars, authVars, refs, heap, cacheVars>>

\* The calls of the other goroutines: list, registrations and heartbeats.
SweepReadCalls == {[kind |-> "list", id |-> ""]}

SweepWriteCalls ==
    {[kind |-> "register", id |-> i] : i \in NodeIds}
    \cup {[kind |-> "resources", id |-> "w1"], [kind |-> "sweep", id |-> ""]}

NextSweep ==
    \/ TickRace
    \/ \E p \in Procs, call \in SweepReadCalls : RLock(p, call)
    \/ \E p \in Procs : ReturnPointers(p)
    \/ \E p \in Procs : ReadFields(p)
    \/ \E p \in Procs : ReadRest(p)
    \/ \E p \in Procs, call \in SweepWriteCalls : Lock(p, call)
    \/ \E p \in Procs : WriteGauges(p)
    \/ \E p \in Procs : procs[p].pc \in {"wlocked", "wlocked2"}
                          /\ procs[p].call.kind # "sweep"
                          /\ WriteAndUnlock(p)
    \/ \E p \in Procs : SweepNow(p)
    \/ \E p \in Procs, id \in NodeIds : SweepTest(p, id)
    \/ \E p \in Procs : SweepWrite(p)
    \/ \E p \in Procs : SweepUnlock(p)

SpecSweep == InitRaceSpec /\ [][NextSweep]_vars

----------------------------------------------------------------------------
(* Claims about the sweep among concurrent writers, checked under SpecSweep *)

\* Goroutine p is inside checkNodeHealth, past time.Now().
InSweep(p) == procs[p].pc \in {"sweeping", "tested"}

\* The records that are offline in the heap h.
OfflineIn(h) == {id \in DOMAIN refs : h[refs[id]].status = NodeStatusOffline}

\* C28: from the sweep's reading of the clock to its unlock nothing but the
\* sweep writes to the registry, and the sweep sets a record offline only
\* when the last_seen the record holds at the moment of the write is more
\* than 30 seconds before the sweep's reading of the clock.
SweepTestAndWriteAreAtomic ==
    [][\A p \in Procs : InSweep(p) =>
          /\ refs' = refs
          /\ heap' # heap => /\ last'.op = "sweepwrite"
                              /\ last'.proc = p
          /\ \A id \in OfflineIn(heap') \ OfflineIn(heap) :
                 procs[p].now - heap[refs[id]].lastSeen > HeartbeatTimeout]_vars

\* C28 happens: a sweep has just set a record offline while the other
\* goroutine holds the pointers of a list made before.
DemotedUnderTheLock ==
    /\ last.op = "sweepwrite"
    /\ \E p, q \in Procs :
          /\ last.proc = p
          /\ procs[p].pc = "sweeping"
          /\ procs[q].pc = "holding"
          /\ \E id \in DOMAIN refs :
                /\ refs[id] \in procs[q].ptrs
                /\ heap[refs[id]].status = NodeStatusOffline
                /\ procs[q].at[refs[id]].status = NodeStatusOnline

----------------------------------------------------------------------------
(* Claims about logout, checked under SpecAuth *)

\* C29: after a logout with a token has completed, the next request that
\* presents the token to authMiddleware is turned away before its handler,
\* although the token has not expired.
LogoutRevokesTheToken ==
    [][(/\ last.op = "logout"
        /\ last.ran
        /\ last'.op \in AuthOps
        /\ last'.token = last.token) => ~last'.ran]_vars

----------------------------------------------------------------------------
(* The container list and its cache, among the handlers that change containers *)

\* The number of changes the container runtime takes.
MaxActions == 2

\* The last moment of the clock in SpecCache.
MaxTimeCache == 3

\* The largest number of containers.
MaxContainers == 2

\* cacheTTL = 2 * time.Second
CacheTTL == 2

\* The goroutines of net/http that serve the container requests.
Handlers == {"h1", "h2"}

\* The runtime's containers are known by how many they are and by the number
\* of changes that led to them.
InitCacheSpec ==
    /\ mode = ModeMaster
    /\ now = 0
    /\ nodes = <<>>
    /\ nextTick = HealthCheckInterval
    /\ last = [op |-> "none"]
    /\ InitToken
    /\ InitCtl
    /\ InitWorker
    /\ InitRace
    /\ InitAuth
    /\ dockerState \in {[gen |-> 0, containers |-> k] : k \in 0..1}
    /\ containersCache = [data |-> [gen |-> 0, containers |-> 0], lastFetch |-> <<>>]
    /\ handlers = [h \in Handlers |-> [pc |-> "idle"]]

\* time.Since(containersCache.lastFetch) < cacheTTL && len(containersCache.data) > 0;
\* the zero time.Time is <<>>.
CacheHit(cache, t) ==
    /\ cache.lastFetch # <<>>
    /\ t - cache.lastFetch[1] < CacheTTL
    /\ cache.data.containers > 0

TickCache ==
    /\ now < MaxTimeCache
    /\ now' = now + 1
    /\ last' = [op |-> "tick"]
    /\ UNCHANGED <<regVars, tokVars, ctlVars, wrkVars, raceVars, authVars, cacheVars>>

\* handleContainers up to the RUnlock: the answer from the cache, or on to
\* the runtime.
CheckCache(h) ==
    /\ handlers[h].pc = "idle"
    /\ IF CacheHit(containersCache, now)
       THEN /\ last' = [op |-> "containers", handler |-> h, code |-> StatusOK,
                        cached |-> TRUE, data |-> containersCache.data]
            /\ UNCHANGED handlers
       ELSE /\ last' = [op |-> "miss", handler |-> h]
            /\ handlers' = [handlers EXCEPT ![h] = [pc |-> "miss"]]
    /\ UNCHANGED <<regVars, now, tokVars, ctlVars, wrkVars, raceVars, authVars,
                   dockerState, containersCache>>

\* dockerClient.ContainerList and the building of containerList.
ContainerList(h, ok) ==
    /\ handlers[h].pc = "miss"
    /\ IF ok
       THEN /\ handlers' = [handlers EXCEPT ![h] = [pc |-> "fetched", data |-> dockerState]]
            /\ last' = [op |-> "fetch", handler |-> h]
       ELSE /\ handlers' = [handlers EXCEPT ![h] = [pc |-> "idle"]]
            /\ last' = [op |-> "containers", handler |-> h, code |-> StatusInternalServerError,
                        cached |-> FALSE, data |-> [gen |-> 0, containers |-> 0]]
    /\ UNCHANGED <<regVars, now, tokVars, ctlVars, wrkVars, raceVars, authVars,
                   dockerState, containersCache>>

\* The cache is filled under its Lock, and the list is answered.
StoreAndAnswer(h) ==
    /\ handlers[h].pc = "fetched"
    /\ containersCache' = [data |-> handlers[h].data, lastFetch |-> <<now>>]
    /\ handlers' = [handlers EXCEPT ![h] = [pc |-> "idle"]]
    /\ last' = [op |-> "containers", handler |-> h, code |-> StatusOK,
                cached |-> FALSE, data |-> handlers[h].data]
    /\ UNCHANGED <<regVars, now, tokVars, ctlVars, wrkVars, raceVars, authVars, dockerState>>

ActionRequests ==
    {[method |-> "POST", valid |-> TRUE, action |-> a] : a \in {"start", "remove", "pause"}}
    \cup {[method |-> "GET", valid |-> TRUE, action |-> "start"],
          [method |-> "POST", valid |-> FALSE, action |-> "start"]}

\* A handler ends without a change of the runtime.
Answer(h, op, code) ==
    /\ last' = [op |-> op, handler |-> h, code |-> code]
    /\ UNCHANGED <<dockerState, handlers>>

\* The runtime after an action on one of its containers.
Acted(d, action) ==
    [gen |-> d.gen + 1,
     containers |-> IF action = "remove" THEN d.containers - 1 ELSE d.containers]

\* handleContainerAction up to the return of the runtime's call; ok is
\* whether the runtime did what it was asked.
HandleContainerAction(h, req, ok) ==
    /\ handlers[h].pc = "idle"
    /\ IF req.method # "POST" THEN Answer(h, "action", StatusMethodNotAllowed)
       ELSE IF ~req.valid THEN Answer(h, "action", StatusBadRequest)
       ELSE IF req.action \notin {"start", "stop", "restart", "remove"}
       THEN Answer(h, "action", StatusBadRequest)
       ELSE IF ~ok \/ dockerState.containers = 0
       THEN Answer(h, "action", StatusInternalServerError)
       ELSE /\ dockerState.gen < MaxActions
            /\ dockerState' = Acted(dockerState, req.action)
            /\ handlers' = [handlers EXCEPT ![h] = [pc |-> "acted", op |-> "action"]]
            /\ last' = [op |-> "docker", handler |-> h]
    /\ UNCHANGED <<regVars, now, tokVars, ctlVars, wrkVars, raceVars, authVars, containersCache>>

RunRequests ==
    {[method |-> "POST", valid |-> TRUE, image |-> i] : i \in {"", "nginx"}}
    \cup {[method |-> "GET", valid |-> TRUE, image |-> "nginx"],
          [method |-> "POST", valid |-> FALSE, image |-> "nginx"]}

\* handleContainerRun up to the return of ContainerStart; ok is whether the
\* image was there or pulled and the container created and started.
HandleContainerRun(h, req, ok) ==
    /\ handlers[h].pc = "idle"
    /\ IF req.method # "POST" THEN Answer(h, "run", StatusMethodNotAllowed)
       ELSE IF ~req.valid THEN Answer(h, "run", StatusBadRequest)
       ELSE IF req.image = "" THEN Answer(h, "run", StatusBadRequest)
       ELSE IF ~ok THEN Answer(h, "run", StatusInternalServerError)
       ELSE /\ dockerState.gen < MaxActions
            /\ dockerState.containers < MaxContainers
            /\ dockerState' = [gen |-> dockerState.gen + 1,
                               containers |-> dockerState.containers + 1]
            /\ handlers' = [handlers EXCEPT ![h] = [pc |-> "acted", op |-> "run"]]
            /\ last' = [op |-> "docker", handler |-> h]
    /\ UNCHANGED <<regVars, now, tokVars, ctlVars, wrkVars, raceVars, authVars, containersCache>>

\* containersCache.lastFetch = time.Time{} under the Lock, and the answer.
Invalidate(h) ==
    /\ handlers[h].pc = "acted"
    /\ containersCache' = [containersCache EXCEPT !.lastFetch = <<>>]
    /\ handlers' = [handlers EXCEPT ![h] = [pc |-> "idle"]]
    /\ last' = [op |-> handlers[h].op, handler |-> h, code |-> StatusOK]
    /\ UNCHANGED <<regVars, now, tokVars, ctlVars, wrkVars, raceVars, authVars, dockerState>>

NextCache ==
    \/ TickCache
    \/ \E h \in Handlers : CheckCache(h)
    \/ \E h \in Handlers, ok \in BOOLEAN : ContainerList(h, ok)
    \/ \E h \in Handlers : StoreAndAnswer(h)
    \/ \E h \in Handlers, req \in ActionRequests, ok \in BOOLEAN : HandleContainerAction(h, req, ok)
    \/ \E h \in Handlers, req \in RunRequests, ok \in BOOLEAN : HandleContainerRun(h, req, ok)
    \/ \E h \in Handlers : Invalidate(h)

SpecCache == InitCacheSpec /\ [][NextCache]_vars

----------------------------------------------------------------------------
(* Claims about the container list, checked under SpecCache *)

\* C30: a list answered from the cache while no action or run is between
\* its change of the runtime and its answer, so that every change made has
\* completed, shows the containers as they are: the cached data were not
\* fetched before any of the changes.
CachedListIsFresh ==
    (/\ last.op = "containers"
     /\ last.cached
     /\ \A h \in Handlers : handlers[h].pc # "acted") => last.data = dockerState

====
